---- MODULE Spec2Model ----
(***************************************************************************)
(* Model of the DOGE trading worker: the trading cycle                     *)
(* (worker/doge_trading_system.go), the order service with its audit trail *)
(* (services/order_service.go), the Bybit order processor and the order    *)
(* store.                                                                  *)
(*                                                                         *)
(* Units.  Candle prices and balances are integers in cents.  Prices that  *)
(* the worker computes (order price, take profit, stop loss) are integers  *)
(* in 1/1000 of a cent, so that price*1.03 and price*0.992 are exact.      *)
(* A quantity balance/price is kept as the fraction [num, den].            *)
(***************************************************************************)
EXTENDS Integers, Sequences, FiniteSets, TLC

\* ------------------------------------------------------------------ bounds
\* the exchange acknowledges at most this many orders in one behaviour
MaxExchOrders == 2
\* GetPositions reports between 0 and MaxPositions active positions
MaxPositions == 1

\* ------------------------------------------------------- program constants
Scale == 1000
\* the percentages 0.03 and 0.008 passed by placeLongOrder/placeShortOrder,
\* in 1/1000
TakeProfitPct == 30
StopLossPct == 8
\* extractCandlesForChecks: the length test and the slice [len-74 : len-2]
MinCandles == 72
SliceBack == 74
\* the volume walks stop after this many matching candles
MatchingCandles == 10

NULL == "<nil>"
EmptyID == ""
Symbol == "DOGEUSDT"

\* the audit rows after which the order service is applied no further
MaxAuditRows == 3

\* order ids the exchange hands out, in order of acknowledgment
ExchIds == <<"EX1", "EX2", "EX3", "EX4", "EX5">>

\* order_statuses as seeded by InitializeOrderStatuses: the id is the index
StatusNames == <<"New", "PartiallyFilled", "Untriggered", "Rejected",
                 "PartiallyFilledCanceled", "Filled", "Cancelled",
                 "Triggered", "Deactivated">>

\* ------------------------------------------------------------ small helpers
Reverse(s) == [i \in 1..Len(s) |-> s[Len(s) + 1 - i]]

\* a nullable *float64: nil, or a value
None == [nil |-> TRUE, v |-> 0]
Some(x) == [nil |-> FALSE, v |-> x]

\* strconv.FormatFloat(x, 'f', 2, 64) read back by the exchange: a price in
\* 1/1000 cent rounded to a whole cent
FormatFloat2(x) == ((x + (Scale \div 2)) \div Scale) * Scale

\* a float64 that is 0.0, as a fraction
Zero == [num |-> 0, den |-> 1]

\* n * k / d rounded to the nearest integer (d > 0, k > 0), computed on the
\* whole part and the remainder of n / d
RoundScaled(n, k, d) ==
    LET a == IF n >= 0 THEN n ELSE 0 - n
        v == (a \div d) * k + (2 * (a % d) * k + d) \div (2 * d)
    IN  IF n >= 0 THEN v ELSE 0 - v

\* fmt.Sprintf("%.8f", x) of a price x in 1/1000 cent: the count of 1e-8
\* dollars, which the format prints exactly
Sprintf8(x) == ToString(x * Scale)

\* fmt.Sprintf("%.8f", f) of a fraction f of 1/1000 cent: rounded to 1e-8
\* dollars
SprintfFrac8(f) ==
    IF f.den = 0 THEN "NaN" ELSE ToString(RoundScaled(f.num, Scale, f.den))

\* fmt.Sprintf("%.4f", f) of a fraction f: rounded to 1e-4
SprintfFrac4(f) ==
    IF f.den = 0 THEN "NaN" ELSE ToString(RoundScaled(f.num, 10000, f.den))

\* fmt.Sprintf("%d", n)
SprintfD(n) == ToString(n)

\* strconv.FormatFloat(math.Floor(quantity), 'f', 0, 64)
FloorQty(q) == q.num \div q.den

\* ------------------------------------------------------------- order store
\* orderRepository.GetByResult: rows with the result, newest first
GetByResult(orders, result) ==
    LET hit(r) == r.result = result
    IN  Reverse(SelectSeq(orders, hit))

\* orderRepository.Exists
Exists(orders, orderID) == \E i \in 1..Len(orders) : orders[i].orderID = orderID

\* orderRepository.GetByOrderID: the first row with the order id
GetByOrderID(orders, orderID) ==
    LET hit(r) == r.orderID = orderID
    IN  SelectSeq(orders, hit)

\* orderStatusRepository.GetByStatusName: 0 when there is no such status
GetByStatusName(name) ==
    IF \E i \in 1..Len(StatusNames) : StatusNames[i] = name
    THEN CHOOSE i \in 1..Len(StatusNames) : StatusNames[i] = name
    ELSE 0

\* Order.validatePrices (the BeforeCreate / BeforeUpdate hook)
validatePrices(o) ==
    /\ (~o.takeProfit.nil =>
            /\ o.takeProfit.v > 0
            /\ ~(o.side = "Buy" /\ o.takeProfit.v <= o.orderPrice)
            /\ ~(o.side = "Sell" /\ o.takeProfit.v >= o.orderPrice))
    /\ (~o.stopLoss.nil =>
            /\ o.stopLoss.v > 0
            /\ ~(o.side = "Buy" /\ o.stopLoss.v >= o.orderPrice)
            /\ ~(o.side = "Sell" /\ o.stopLoss.v <= o.orderPrice))

\* Order.BeforeCreate: TRUE when the row may be inserted
BeforeCreate(o) ==
    /\ o.orderID # EmptyID
    /\ o.symbol # ""
    /\ o.orderPrice > 0
    /\ o.quantity.num > 0
    /\ o.side \in {"Buy", "Sell"}
    /\ validatePrices(o)

\* Order.BeforeCreate normalises an unknown result to Pending
NormalizeResult(o) ==
    IF o.result \in {"Profit", "Loss", "Pending"} THEN o
    ELSE [o EXCEPT !.result = "Pending"]

\* ----------------------------------------------------------- order service
\* OrderService.validateOrder: TRUE when the order passes
validateOrder(o) ==
    /\ o.orderID # EmptyID
    /\ o.symbol # ""
    /\ o.orderPrice > 0
    /\ o.quantity.num > 0
    /\ o.side \in {"Buy", "Sell"}
    /\ (~o.takeProfit.nil =>
            /\ o.takeProfit.v > 0
            /\ ~(o.side = "Buy" /\ o.takeProfit.v <= o.orderPrice)
            /\ ~(o.side = "Sell" /\ o.takeProfit.v >= o.orderPrice))
    /\ (~o.stopLoss.nil =>
            /\ o.stopLoss.v > 0
            /\ ~(o.side = "Buy" /\ o.stopLoss.v >= o.orderPrice)
            /\ ~(o.side = "Sell" /\ o.stopLoss.v <= o.orderPrice))

\* the audit row CreateOrder writes
CreatedAudit(orderID) ==
    [orderID |-> orderID, fieldName |-> "created",
     oldValue |-> NULL, newValue |-> "Order created"]

\* OrderService.CreateOrder.  fault names the store call that fails:
\* "exists" (Order().Exists), "status" (OrderStatus().GetByID),
\* "create" (Order().Create), "audit" (OrderAudit().Create), or "none".
CreateOrder(orders, audit, order, fault) ==
    LET fail == [err |-> TRUE, orders |-> orders, audit |-> audit]
    IN  IF ~validateOrder(order) THEN fail
        ELSE IF fault = "exists" \/ Exists(orders, order.orderID) THEN fail
        ELSE IF fault = "status" \/ order.orderStatusID \notin 1..Len(StatusNames)
             THEN fail
        ELSE IF fault = "create" \/ ~BeforeCreate(order) THEN fail
        ELSE [err |-> FALSE,
              orders |-> Append(orders, NormalizeResult(order)),
              audit |-> IF fault = "audit" THEN audit
                        ELSE Append(audit, CreatedAudit(order.orderID))]

\* the audit row UpdateOrderResult writes
ResultAudit(orderID, old, new) ==
    [orderID |-> orderID, fieldName |-> "result",
     oldValue |-> old, newValue |-> new]

\* the UPDATE ... WHERE order_id = ? of UpdateOrderResult
SetResult(orders, orderID, result) ==
    [i \in 1..Len(orders) |->
        IF orders[i].orderID = orderID
        THEN [orders[i] EXCEPT !.result = result] ELSE orders[i]]

\* UpdateOrderResult as it would be without its audit row
UpdateOrderResultUnaudited(orders, audit, orderID, result, fault) ==
    LET found == GetByOrderID(orders, orderID)
        fail == [err |-> TRUE, orders |-> orders, audit |-> audit]
    IN  IF fault = "get" \/ Len(found) = 0 THEN fail
        ELSE IF found[1].result = result
             THEN [err |-> FALSE, orders |-> orders, audit |-> audit]
        ELSE IF fault \in {"update", "audit", "commit"} THEN fail
        ELSE [err |-> FALSE,
              orders |-> SetResult(orders, orderID, result),
              audit |-> audit]

\* OrderService.UpdateOrderResult.  fault names the store call that fails:
\* "get" (GetByOrderID), "update" (the UPDATE), "audit" (tx.Create),
\* "commit" (CommitTransaction), or "none".  A failure after the transaction
\* began leaves the store as it was.
UpdateOrderResult(orders, audit, orderID, result, fault) ==
    LET found == GetByOrderID(orders, orderID)
        fail == [err |-> TRUE, orders |-> orders, audit |-> audit]
    IN  IF fault = "get" \/ Len(found) = 0 THEN fail
        ELSE IF found[1].result = result
             THEN [err |-> FALSE, orders |-> orders, audit |-> audit]
        ELSE IF fault \in {"update", "audit", "commit"} THEN fail
        ELSE [err |-> FALSE,
              orders |-> SetResult(orders, orderID, result),
              audit |-> Append(audit,
                               ResultAudit(orderID, found[1].result, result))]

\* the value of a nullable price in an audit row: nil stays nil
SprintfNullable(p) == IF p.nil THEN NULL ELSE Sprintf8(p.v)

\* a nullable price differs between the old and the new order
NullableDiffers(old, new) ==
    \/ old.nil /\ ~new.nil
    \/ ~old.nil /\ new.nil
    \/ ~old.nil /\ ~new.nil /\ old.v # new.v

AuditRow(orderID, fieldName, old, new) ==
    [orderID |-> orderID, fieldName |-> fieldName,
     oldValue |-> old, newValue |-> new]

\* createAuditRecords as it would be without the stop_loss_price block
createAuditRecordsNoStopLoss(oldOrder, newOrder, fault) ==
    LET rows ==
            (IF oldOrder.orderPrice # newOrder.orderPrice
             THEN << AuditRow(newOrder.orderID, "order_price",
                              Sprintf8(oldOrder.orderPrice),
                              Sprintf8(newOrder.orderPrice)) >>
             ELSE <<>>)
            \o (IF NullableDiffers(oldOrder.takeProfit, newOrder.takeProfit)
                THEN << AuditRow(newOrder.orderID, "take_profit_price",
                                 SprintfNullable(oldOrder.takeProfit),
                                 SprintfNullable(newOrder.takeProfit)) >>
                ELSE <<>>)
            \o (IF oldOrder.orderStatusID # newOrder.orderStatusID
                THEN << AuditRow(newOrder.orderID, "order_status_id",
                                 SprintfD(oldOrder.orderStatusID),
                                 SprintfD(newOrder.orderStatusID)) >>
                ELSE <<>>)
            \o (IF oldOrder.result # newOrder.result
                THEN << AuditRow(newOrder.orderID, "result",
                                 oldOrder.result, newOrder.result) >>
                ELSE <<>>)
    IN  IF fault = "audit" /\ rows # <<>>
        THEN [err |-> TRUE, rows |-> <<>>, writes |-> 1]
        ELSE [err |-> FALSE, rows |-> rows, writes |-> Len(rows)]

\* OrderService.createAuditRecords: the rows to write, one per field that
\* differs, in the order of the code; with fault "audit" the first tx.Create
\* fails.  writes counts the tx.Create calls made.
createAuditRecords(oldOrder, newOrder, fault) ==
    LET rows ==
            (IF oldOrder.orderPrice # newOrder.orderPrice
             THEN << AuditRow(newOrder.orderID, "order_price",
                              Sprintf8(oldOrder.orderPrice),
                              Sprintf8(newOrder.orderPrice)) >>
             ELSE <<>>)
            \o (IF NullableDiffers(oldOrder.takeProfit, newOrder.takeProfit)
                THEN << AuditRow(newOrder.orderID, "take_profit_price",
                                 SprintfNullable(oldOrder.takeProfit),
                                 SprintfNullable(newOrder.takeProfit)) >>
                ELSE <<>>)
            \o (IF NullableDiffers(oldOrder.stopLoss, newOrder.stopLoss)
                THEN << AuditRow(newOrder.orderID, "stop_loss_price",
                                 SprintfNullable(oldOrder.stopLoss),
                                 SprintfNullable(newOrder.stopLoss)) >>
                ELSE <<>>)
            \o (IF oldOrder.orderStatusID # newOrder.orderStatusID
                THEN << AuditRow(newOrder.orderID, "order_status_id",
                                 SprintfD(oldOrder.orderStatusID),
                                 SprintfD(newOrder.orderStatusID)) >>
                ELSE <<>>)
            \o (IF oldOrder.result # newOrder.result
                THEN << AuditRow(newOrder.orderID, "result",
                                 oldOrder.result, newOrder.result) >>
                ELSE <<>>)
    IN  IF fault = "audit" /\ rows # <<>>
        THEN [err |-> TRUE, rows |-> <<>>, writes |-> 1]
        ELSE [err |-> FALSE, rows |-> rows, writes |-> Len(rows)]

\* tx.Save(order) of gorm, id being the primary key the order carries and
\* the primary key of a row being its position in the table (rows are
\* numbered as they are inserted).  A zero key is an INSERT; a key of a row
\* is an UPDATE of all columns of that row; a key of no row is an UPDATE of
\* no row followed by an INSERT.  The unique index on order_id rejects a
\* second row with the order id; the hooks validate the prices.
Save(orders, id, order, fault) ==
    LET fail == [err |-> TRUE, orders |-> orders]
    IN  IF fault = "update" THEN fail
        ELSE IF id = 0
             THEN IF ~BeforeCreate(order) \/ Exists(orders, order.orderID)
                  THEN fail
                  ELSE [err |-> FALSE, orders |-> Append(orders, order)]
        ELSE IF ~validatePrices(order) THEN fail
        ELSE IF id \in 1..Len(orders)
             THEN IF \E j \in 1..Len(orders) :
                         j # id /\ orders[j].orderID = order.orderID
                  THEN fail
                  ELSE [err |-> FALSE, orders |-> [orders EXCEPT ![id] = order]]
        ELSE IF Exists(orders, order.orderID) THEN fail
        ELSE [err |-> FALSE, orders |-> Append(orders, order)]

\* OrderService.UpdateOrder.  fault names the store call that fails: "get"
\* (GetByOrderID), "update" (tx.Save), "audit" (tx.Create of an audit row),
\* "commit" (CommitTransaction), or "none".
UpdateOrder(orders, audit, id, order, fault) ==
    LET found == GetByOrderID(orders, order.orderID)
        fail == [err |-> TRUE, orders |-> orders, audit |-> audit, writes |-> 0]
    IN  IF fault = "get" \/ Len(found) = 0 THEN fail
        ELSE IF ~validateOrder(order) THEN fail
        ELSE LET s == Save(orders, id, order, fault)
                 a == createAuditRecords(found[1], order, fault)
             IN  IF s.err THEN fail
                 ELSE IF a.err THEN [fail EXCEPT !.writes = a.writes]
                 ELSE IF fault = "commit" THEN [fail EXCEPT !.writes = a.writes]
                 ELSE [err |-> FALSE, orders |-> s.orders,
                       audit |-> audit \o a.rows, writes |-> a.writes]

\* the UPDATE ... WHERE order_id = ? of UpdateOrderStatus
SetStatus(orders, orderID, statusID) ==
    [i \in 1..Len(orders) |->
        IF orders[i].orderID = orderID
        THEN [orders[i] EXCEPT !.orderStatusID = statusID] ELSE orders[i]]

\* UpdateOrderStatus as it would be if a failed audit write did not roll
\* the UPDATE back
UpdateOrderStatusNoRollback(orders, audit, orderID, statusName, fault) ==
    LET statusID == GetByStatusName(statusName)
        found == GetByOrderID(orders, orderID)
        fail == [err |-> TRUE, orders |-> orders, audit |-> audit, writes |-> 0]
    IN  IF statusID = 0 THEN fail
        ELSE IF fault = "get" \/ Len(found) = 0 THEN fail
        ELSE IF found[1].orderStatusID = statusID
             THEN [err |-> FALSE, orders |-> orders, audit |-> audit,
                   writes |-> 0]
        ELSE IF fault = "update" THEN fail
        ELSE IF fault = "audit"
             THEN [err |-> TRUE, orders |-> SetStatus(orders, orderID, statusID),
                   audit |-> audit, writes |-> 1]
        ELSE IF fault = "commit" THEN [fail EXCEPT !.writes = 1]
        ELSE [err |-> FALSE,
              orders |-> SetStatus(orders, orderID, statusID),
              audit |-> Append(audit,
                               AuditRow(orderID, "order_status_id",
                                        SprintfD(found[1].orderStatusID),
                                        SprintfD(statusID))),
              writes |-> 1]

\* OrderService.UpdateOrderStatus.  fault as for UpdateOrder.
UpdateOrderStatus(orders, audit, orderID, statusName, fault) ==
    LET statusID == GetByStatusName(statusName)
        found == GetByOrderID(orders, orderID)
        fail == [err |-> TRUE, orders |-> orders, audit |-> audit, writes |-> 0]
    IN  IF statusID = 0 THEN fail
        ELSE IF fault = "get" \/ Len(found) = 0 THEN fail
        ELSE IF found[1].orderStatusID = statusID
             THEN [err |-> FALSE, orders |-> orders, audit |-> audit,
                   writes |-> 0]
        ELSE IF fault = "update" THEN fail
        ELSE IF fault \in {"audit", "commit"} THEN [fail EXCEPT !.writes = 1]
        ELSE [err |-> FALSE,
              orders |-> SetStatus(orders, orderID, statusID),
              audit |-> Append(audit,
                               AuditRow(orderID, "order_status_id",
                                        SprintfD(found[1].orderStatusID),
                                        SprintfD(statusID))),
              writes |-> 1]

\* Order.CalculatePnL: the order with its PnL at the current price.  The
\* percentage (pnl / (orderPrice * quantity)) * 100 is kept as a fraction.
CalculatePnL(o, currentPrice) ==
    LET diff == IF o.side = "Buy" THEN currentPrice - o.orderPrice
                ELSE o.orderPrice - currentPrice
        pnl == [num |-> diff * o.quantity.num, den |-> o.quantity.den]
    IN  [o EXCEPT !.pnl = pnl,
                  !.pnlPercentage =
                      IF o.orderPrice # 0
                      THEN [num |-> pnl.num * 100,
                            den |-> o.orderPrice * o.quantity.num]
                      ELSE o.pnlPercentage]

\* fmt.Sprintf("PnL: %.8f, PnL%%: %.4f", order.PnL, order.PnLPercentage)
SprintfPnL(o) ==
    "PnL: " \o SprintfFrac8(o.pnl) \o ", PnL%: " \o SprintfFrac4(o.pnlPercentage)

\* the UPDATE ... WHERE order_id = ? of UpdateOrderPnL
SetPnL(orders, orderID, o) ==
    [i \in 1..Len(orders) |->
        IF orders[i].orderID = orderID
        THEN [orders[i] EXCEPT !.pnl = o.pnl, !.pnlPercentage = o.pnlPercentage]
        ELSE orders[i]]

\* OrderService.UpdateOrderPnL.  fault as for UpdateOrder.  Both values of
\* the audit row are formatted from the order after CalculatePnL.
UpdateOrderPnL(orders, audit, orderID, currentPrice, fault) ==
    LET found == GetByOrderID(orders, orderID)
        fail == [err |-> TRUE, orders |-> orders, audit |-> audit, writes |-> 0]
    IN  IF fault = "get" \/ Len(found) = 0 THEN fail
        ELSE LET order == CalculatePnL(found[1], currentPrice)
             IN  IF fault = "update" THEN fail
                 ELSE IF fault \in {"audit", "commit"}
                      THEN [fail EXCEPT !.writes = 1]
                 ELSE [err |-> FALSE,
                       orders |-> SetPnL(orders, orderID, order),
                       audit |-> Append(audit,
                                        AuditRow(orderID, "pnl_update",
                                                 SprintfPnL(order),
                                                 SprintfPnL(order))),
                       writes |-> 1]

\* ------------------------------------------------------- Bybit order processor
\* OrderResponse.IsSuccess
IsSuccess(resp) == resp.errorCode = "" \/ resp.errorCode = "0"

\* the OrderRequest built by BybitOrderProcessor.PlaceLongOrder / PlaceShortOrder
OrderRequest(side, quantity, stopLoss, takeProfit) ==
    [side |-> side, qty |-> FloorQty(quantity),
     stopLoss |-> FormatFloat2(stopLoss), takeProfit |-> FormatFloat2(takeProfit)]

\* BybitOrderProcessor.placeOrder.  ex is what the exchange does with the
\* request: "err" (transport or decoding error), "reject" (retCode # 0) or
\* "ack" (retCode = 0 and a new order id).
placeOrder(exchOrders, req, ex) ==
    IF ex = "err"
    THEN [err |-> TRUE, exchOrders |-> exchOrders,
          resp |-> [orderID |-> EmptyID, side |-> req.side, errorCode |-> "",
                    status |-> ""]]
    ELSE IF ex = "reject"
    THEN [err |-> FALSE, exchOrders |-> exchOrders,
          resp |-> [orderID |-> EmptyID, side |-> req.side,
                    errorCode |-> "10001", status |-> "Rejected"]]
    ELSE LET id == ExchIds[Len(exchOrders) + 1]
         IN  [err |-> FALSE,
              exchOrders |-> Append(exchOrders,
                                    [orderID |-> id, side |-> req.side,
                                     qty |-> req.qty, stopLoss |-> req.stopLoss,
                                     takeProfit |-> req.takeProfit]),
              resp |-> [orderID |-> id, side |-> req.side, errorCode |-> "0",
                        status |-> "Untriggered"]]

\* BybitOrderProcessor.PlaceLongOrder
PlaceLongOrder(exchOrders, quantity, stopLoss, takeProfit, ex) ==
    LET req == OrderRequest("Buy", quantity, stopLoss, takeProfit)
    IN  [req |-> req, out |-> placeOrder(exchOrders, req, ex)]

\* BybitOrderProcessor.PlaceShortOrder
PlaceShortOrder(exchOrders, quantity, stopLoss, takeProfit, ex) ==
    LET req == OrderRequest("Sell", quantity, stopLoss, takeProfit)
    IN  [req |-> req, out |-> placeOrder(exchOrders, req, ex)]

\* ------------------------------------------------------------------- worker
\* calculateMaxQuantity: balance / price, 0 on a bad price or a failed
\* balance query.  bal is the outcome of GetUSDTBalance.
calculateMaxQuantity(price, bal) ==
    IF price <= 0 THEN [num |-> 0, den |-> 1]
    ELSE IF bal.err THEN [num |-> 0, den |-> 1]
    ELSE [num |-> bal.amount, den |-> price]

calculateLongStopLoss(price, slPercentage) == price * (Scale - slPercentage)

calculateLongTakeProfit(price, tpPercentage) == price * (Scale + tpPercentage)

calculateShortStopLoss(price, tpPercentage) == price * (Scale + tpPercentage)

calculateShortTakeProfit(price, slPercentage) == price * (Scale - slPercentage)

\* the statusMap of mapBybitStatusToOrderStatusID
statusMap ==
    ("New" :> "New") @@ ("PartiallyFilled" :> "PartiallyFilled")
    @@ ("Filled" :> "Filled") @@ ("Cancelled" :> "Cancelled")
    @@ ("Rejected" :> "Rejected") @@ ("Untriggered" :> "Untriggered")
    @@ ("Triggered" :> "Triggered") @@ ("Deactivated" :> "Deactivated")
    @@ ("PartiallyFilledCanceled" :> "PartiallyFilledCanceled")

\* mapBybitStatusToOrderStatusID as it would be if a status that is not in
\* the map failed the mapping
mapBybitStatusUnknownFails(bybitStatus, fault) ==
    LET exists == bybitStatus \in DOMAIN statusMap
        mappedStatus == IF exists THEN statusMap[bybitStatus] ELSE "New"
        id == GetByStatusName(mappedStatus)
    IN  [err |-> fault = "map" \/ id = 0 \/ ~exists,
         id |-> IF exists THEN id ELSE 0]

\* mapBybitStatusToOrderStatusID: the status of the map, "New" for a status
\* that is not in it, looked up by name; fails when the lookup fails
\* (fault = "map", or no such status)
mapBybitStatusToOrderStatusID(bybitStatus, fault) ==
    LET exists == bybitStatus \in DOMAIN statusMap
        mappedStatus == IF exists THEN statusMap[bybitStatus] ELSE "New"
        id == GetByStatusName(mappedStatus)
    IN  [err |-> fault = "map" \/ id = 0, id |-> id]

\* the side as it would be if it were taken from the response
OrderSideOfResponse(resp) == resp.side

\* the side createOrderFromBybitResponse writes into the Order: always Buy,
\* whatever the side of the response
OrderSideOf(resp) == "Buy"

\* createOrderFromBybitResponse as it would be if the Order started as Profit
createOrderFromBybitResponseAsProfit(resp, triggerPrice, quantity, takeProfit, stopLoss, fault) ==
    LET m == mapBybitStatusToOrderStatusID(resp.status, fault)
    IN  [err |-> m.err,
         order |-> [orderID |-> resp.orderID,
                    symbol |-> Symbol,
                    side |-> OrderSideOf(resp),
                    orderPrice |-> triggerPrice * Scale,
                    quantity |-> quantity,
                    takeProfit |-> Some(takeProfit),
                    stopLoss |-> Some(stopLoss),
                    orderStatusID |-> m.id,
                    result |-> "Profit",
                    pnl |-> Zero, pnlPercentage |-> Zero]]

\* createOrderFromBybitResponse
createOrderFromBybitResponse(resp, triggerPrice, quantity, takeProfit, stopLoss, fault) ==
    LET m == mapBybitStatusToOrderStatusID(resp.status, fault)
    IN  [err |-> m.err,
         order |-> [orderID |-> resp.orderID,
                    symbol |-> Symbol,
                    side |-> OrderSideOf(resp),
                    orderPrice |-> triggerPrice * Scale,
                    quantity |-> quantity,
                    takeProfit |-> Some(takeProfit),
                    stopLoss |-> Some(stopLoss),
                    orderStatusID |-> m.id,
                    result |-> "Pending",
                    pnl |-> Zero, pnlPercentage |-> Zero]]

\* saveOrderToDatabase
saveOrderToDatabase(orders, audit, order, fault) ==
    CreateOrder(orders, audit, order, fault)

\* The worker and its collaborators as one record w, threaded through the
\* steps of an operation:
\*   orderProcessor  FALSE when the processor is nil (no API credentials)
\*   orderPlaced     the worker's flag
\*   orders, audit   the store
\*   exchOrders      the orders the exchange has acknowledged
\*   calls           the requests submitted to the exchange in this operation
\*   acks            the order ids the exchange acknowledged in this operation
\*   created         the order ids of the rows created in this operation
\*   unrecorded      the "placed on Bybit but NOT saved" warning was logged
\*   balanceQueries  the GetUSDTBalance calls made in this operation

\* the common tail as it would be if the Order were saved whether or not the
\* exchange accepted the request, under a local id when the exchange gave none
AfterPlacementSpeculative(w, p, currentPrice, quantity, takeProfit, stopLoss, fault) ==
    LET w1 == [w EXCEPT !.calls = Append(@, p.req),
                        !.exchOrders = p.out.exchOrders]
    IN  IF p.out.err THEN [id |-> EmptyID, w |-> w1]
        ELSE
          LET resp == p.out.resp
              ok == IsSuccess(resp)
              w2 == IF ok THEN [w1 EXCEPT !.acks = Append(@, resp.orderID)]
                    ELSE w1
              c == createOrderFromBybitResponse(resp, currentPrice, quantity,
                                                takeProfit, stopLoss, fault)
              row == IF ok THEN c.order ELSE [c.order EXCEPT !.orderID = "LOCAL1"]
              s == saveOrderToDatabase(w2.orders, w2.audit, row, fault)
          IN  IF c.err \/ s.err
              THEN [id |-> resp.orderID, w |-> [w2 EXCEPT !.unrecorded = ok]]
              ELSE [id |-> resp.orderID,
                    w |-> [w2 EXCEPT !.orders = s.orders,
                                     !.audit = s.audit,
                                     !.created = Append(@, row.orderID),
                                     !.orderPlaced = ok]]

\* the common tail of placeLongOrder / placeShortOrder after the exchange
\* call: the error and rejection tests, then building and saving the Order
AfterPlacement(w, p, currentPrice, quantity, takeProfit, stopLoss, fault) ==
    LET w1 == [w EXCEPT !.calls = Append(@, p.req),
                        !.exchOrders = p.out.exchOrders]
    IN  IF p.out.err THEN [id |-> EmptyID, w |-> w1]
        ELSE IF ~IsSuccess(p.out.resp) THEN [id |-> EmptyID, w |-> w1]
        ELSE
          LET resp == p.out.resp
              w2 == [w1 EXCEPT !.acks = Append(@, resp.orderID)]
              c == createOrderFromBybitResponse(resp, currentPrice, quantity,
                                                takeProfit, stopLoss, fault)
              s == saveOrderToDatabase(w2.orders, w2.audit, c.order, fault)
          IN  IF c.err
              THEN [id |-> resp.orderID, w |-> [w2 EXCEPT !.unrecorded = TRUE]]
              ELSE IF s.err
              THEN [id |-> resp.orderID, w |-> [w2 EXCEPT !.unrecorded = TRUE]]
              ELSE [id |-> resp.orderID,
                    w |-> [w2 EXCEPT !.orders = s.orders,
                                     !.audit = s.audit,
                                     !.created = Append(@, resp.orderID),
                                     !.orderPlaced = TRUE]]

\* placeLongOrder as it would be if it returned the empty id whenever the
\* Order could not be recorded
placeLongOrderHidingUnrecorded(w, currentPrice, in) ==
    IF ~w.orderProcessor THEN [id |-> EmptyID, w |-> w]
    ELSE IF currentPrice <= 0 THEN [id |-> EmptyID, w |-> w]
    ELSE
      LET quantity == calculateMaxQuantity(currentPrice, in.bal)
          wq == [w EXCEPT !.balanceQueries = @ + 1]
          takeProfit == calculateLongTakeProfit(currentPrice, TakeProfitPct)
          stopLoss == calculateLongStopLoss(currentPrice, StopLossPct)
          a == AfterPlacement(wq,
                              PlaceLongOrder(wq.exchOrders, quantity, stopLoss,
                                             takeProfit, in.ex),
                              currentPrice, quantity, takeProfit, stopLoss,
                              in.fault)
      IN  IF quantity.num <= 0 THEN [id |-> EmptyID, w |-> wq]
          ELSE IF a.w.unrecorded THEN [id |-> EmptyID, w |-> a.w]
          ELSE a

\* placeLongOrder.  in = [bal, ex, fault]: the outcome of the balance query,
\* of the exchange call and the store call that fails.
placeLongOrder(w, currentPrice, in) ==
    IF ~w.orderProcessor THEN [id |-> EmptyID, w |-> w]
    ELSE IF currentPrice <= 0 THEN [id |-> EmptyID, w |-> w]
    ELSE
      LET quantity == calculateMaxQuantity(currentPrice, in.bal)
          wq == [w EXCEPT !.balanceQueries = @ + 1]
          takeProfit == calculateLongTakeProfit(currentPrice, TakeProfitPct)
          stopLoss == calculateLongStopLoss(currentPrice, StopLossPct)
      IN  IF quantity.num <= 0 THEN [id |-> EmptyID, w |-> wq]
          ELSE AfterPlacement(wq,
                              PlaceLongOrder(wq.exchOrders, quantity, stopLoss,
                                             takeProfit, in.ex),
                              currentPrice, quantity, takeProfit, stopLoss,
                              in.fault)

\* placeShortOrder as it would be if it raised orderPlaced when it submits
placeShortOrderFlagFirst(w, currentPrice, in) ==
    IF ~w.orderProcessor THEN [id |-> EmptyID, w |-> w]
    ELSE IF currentPrice <= 0 THEN [id |-> EmptyID, w |-> w]
    ELSE
      LET quantity == calculateMaxQuantity(currentPrice, in.bal)
          wq == [w EXCEPT !.balanceQueries = @ + 1, !.orderPlaced = TRUE]
          takeProfit == calculateShortTakeProfit(currentPrice, TakeProfitPct)
          stopLoss == calculateShortStopLoss(currentPrice, StopLossPct)
      IN  IF quantity.num <= 0 THEN [id |-> EmptyID, w |-> wq]
          ELSE AfterPlacement(wq,
                              PlaceShortOrder(wq.exchOrders, quantity, stopLoss,
                                              takeProfit, in.ex),
                              currentPrice, quantity, takeProfit, stopLoss,
                              in.fault)

\* placeShortOrder
placeShortOrder(w, currentPrice, in) ==
    IF ~w.orderProcessor THEN [id |-> EmptyID, w |-> w]
    ELSE IF currentPrice <= 0 THEN [id |-> EmptyID, w |-> w]
    ELSE
      LET quantity == calculateMaxQuantity(currentPrice, in.bal)
          wq == [w EXCEPT !.balanceQueries = @ + 1]
          takeProfit == calculateShortTakeProfit(currentPrice, TakeProfitPct)
          stopLoss == calculateShortStopLoss(currentPrice, StopLossPct)
      IN  IF quantity.num <= 0 THEN [id |-> EmptyID, w |-> wq]
          ELSE AfterPlacement(wq,
                              PlaceShortOrder(wq.exchOrders, quantity, stopLoss,
                                              takeProfit, in.ex),
                              currentPrice, quantity, takeProfit, stopLoss,
                              in.fault)

\* isPostionActive as it would be if a position without a Pending order were
\* reported as an error
isPostionActiveStrict(orders, audit, pos, fault) ==
    LET same(active, err) == [active |-> active, err |-> err,
                              orders |-> orders, audit |-> audit]
        pending == GetByResult(orders, "Pending")
    IN  IF pos.err THEN same(FALSE, TRUE)
        ELSE IF fault = "query" THEN same(FALSE, TRUE)
        ELSE IF pos.n > 0
        THEN IF Len(pending) = 0 THEN same(FALSE, TRUE)
             ELSE LET u == UpdateOrderResult(orders, audit, pending[1].orderID,
                                             "Done", fault)
                  IN  IF u.err THEN same(FALSE, FALSE)
                      ELSE [active |-> pos.n > 0, err |-> FALSE,
                            orders |-> u.orders, audit |-> u.audit]
        ELSE same(pos.n > 0, FALSE)

\* isPostionActive.  pos is the outcome of GetPositions, fault the store call
\* that fails: "query" (GetOrdersByResult) or a fault of UpdateOrderResult.
\* When UpdateOrderResult fails the code returns (false, err) with the err of
\* GetPositions, which is nil at that point.
isPostionActive(orders, audit, pos, fault) ==
    LET same(active, err) == [active |-> active, err |-> err,
                              orders |-> orders, audit |-> audit]
        pending == GetByResult(orders, "Pending")
    IN  IF pos.err THEN same(FALSE, TRUE)
        ELSE IF fault = "query" THEN same(FALSE, TRUE)
        ELSE IF pos.n > 0
        THEN IF Len(pending) = 0 THEN same(TRUE, FALSE)
             ELSE LET u == UpdateOrderResult(orders, audit, pending[1].orderID,
                                             "Done", fault)
                  IN  IF u.err THEN same(FALSE, FALSE)
                      ELSE [active |-> pos.n > 0, err |-> FALSE,
                            orders |-> u.orders, audit |-> u.audit]
        ELSE same(pos.n > 0, FALSE)

\* ---------------------------------------------------------- signal detection
\* Candles are records [open, high, low, close, volume]; a series is indexed
\* from 1, so the Go index i is the index i + 1 here.
SetMax(S) == CHOOSE x \in S : \A y \in S : y <= x
SetMin(S) == CHOOSE x \in S : \A y \in S : x <= y

\* fetchLast1000Candles: the exchange answers newest first and the worker
\* reverses the series in place.  A failed fetch has no response to reverse.
fetchLast1000Candles(fetch) ==
    IF fetch.err THEN [status |-> "panic", candles |-> <<>>]
    ELSE [status |-> "ok", candles |-> Reverse(fetch.candles)]

\* extractCandlesForChecks as it would be if the slice ended with the
\* second-to-last candle
extractCandlesForChecksWithCurrent(c) ==
    LET n == Len(c)
        last72 == SubSeq(c, n - SliceBack + 2, n - 1)
    IN  IF n < MinCandles
        THEN [status |-> "error", last72 |-> <<>>, wall |-> 0, support |-> 0]
        ELSE IF n - SliceBack < 0
        THEN [status |-> "panic", last72 |-> <<>>, wall |-> 0, support |-> 0]
        ELSE [status |-> "ok", last72 |-> last72,
              wall |-> SetMax({0} \cup {last72[i].high : i \in 1..Len(last72)}),
              support |-> SetMin({last72[i].low : i \in 1..Len(last72)})]

\* extractCandlesForChecks: "error" below 72 candles, a slice with a negative
\* bound (a run-time panic) for 72 or 73, otherwise the wall (highest high,
\* starting from 0) and the support (lowest low) of the 72 candles before the
\* last two
extractCandlesForChecks(c) ==
    LET n == Len(c)
        last72 == SubSeq(c, n - SliceBack + 1, n - 2)
    IN  IF n < MinCandles
        THEN [status |-> "error", last72 |-> <<>>, wall |-> 0, support |-> 0]
        ELSE IF n - SliceBack < 0
        THEN [status |-> "panic", last72 |-> <<>>, wall |-> 0, support |-> 0]
        ELSE [status |-> "ok", last72 |-> last72,
              wall |-> SetMax({0} \cup {last72[i].high : i \in 1..Len(last72)}),
              support |-> SetMin({last72[i].low : i \in 1..Len(last72)})]

\* checkWallAndSupportBreak
checkWallAndSupportBreak(currentClosedCandle, lastFiveCandles, wall, support) ==
    IF Len(lastFiveCandles) < MinCandles
    THEN [wallBreak |-> FALSE, supportBreak |-> FALSE]
    ELSE IF currentClosedCandle.close > wall
    THEN [wallBreak |-> TRUE, supportBreak |-> FALSE]
    ELSE IF currentClosedCandle.close < support
    THEN [wallBreak |-> FALSE, supportBreak |-> TRUE]
    ELSE [wallBreak |-> FALSE, supportBreak |-> FALSE]

\* for i := from; i > 0 && count < 10; i--  { if green { sum += volume; count++ } }
RECURSIVE GreenWalk(_, _, _, _)
GreenWalk(c, i, count, sum) ==
    IF i > 1 /\ count < MatchingCandles
    THEN IF c[i].close > c[i].open
         THEN GreenWalk(c, i - 1, count + 1, sum + c[i].volume)
         ELSE GreenWalk(c, i - 1, count, sum)
    ELSE [count |-> count, sum |-> sum]

\* for i := from; i > 0 && count < 10; i--  { if red { sum += volume; count++ } }
RECURSIVE RedWalk(_, _, _, _)
RedWalk(c, i, count, sum) ==
    IF i > 1 /\ count < MatchingCandles
    THEN IF c[i].close < c[i].open
         THEN RedWalk(c, i - 1, count + 1, sum + c[i].volume)
         ELSE RedWalk(c, i - 1, count, sum)
    ELSE [count |-> count, sum |-> sum]

\* for i := from; i > 0 && stop == false; i--  { sum += volume }: the second
\* loop of the green computation, whose condition (greenCandlesCount < 10)
\* does not change while it runs
RECURSIVE WholeWalk(_, _, _)
WholeWalk(c, i, sum) ==
    IF i > 1 THEN WholeWalk(c, i - 1, sum + c[i].volume) ELSE sum

\* for i := from; i > 0 && generalCandlesCount < 10; i--  { sum += volume; count++ }
RECURSIVE GeneralWalk(_, _, _, _)
GeneralWalk(c, i, count, sum) ==
    IF i > 1 /\ count < MatchingCandles
    THEN GeneralWalk(c, i - 1, count + 1, sum + c[i].volume)
    ELSE [count |-> count, sum |-> sum]

\* calculateGreenCandlesAverageVolume: the ratio as the fraction num/den.  The
\* second loop adds to the green sum and the general sum stays 0.0.
calculateGreenCandlesAverageVolume(c) ==
    LET g == GreenWalk(c, Len(c) - 1, 0, 0)
        green == IF g.count < MatchingCandles
                 THEN WholeWalk(c, Len(c) - 1, g.sum) ELSE g.sum
    IN  [num |-> green, den |-> 0]

\* calculateRedCandlesAverageVolume
calculateRedCandlesAverageVolume(c) ==
    LET r == RedWalk(c, Len(c) - 1, 0, 0)
        g == GeneralWalk(c, Len(c) - 1, 0, 0)
    IN  [num |-> r.sum, den |-> g.sum]

\* ratio > 0.6 in float64: x/0 is +Inf for x > 0 and NaN for x = 0
RatioAbove06(r) ==
    IF r.den = 0 THEN r.num > 0 ELSE r.num * 10 > 6 * r.den

\* volume > ratio*1.2 in float64: nothing exceeds +Inf or compares with NaN
VolumeAboveRatio(volume, r) ==
    IF r.den = 0 THEN FALSE ELSE volume * r.den * 10 > r.num * 12

\* the signal part of executeTradingCycle: fetch, extract, breakout test and
\* volume confirmation.  kind is "panic" (a run-time panic, recovered by the
\* scheduler's job wrapper), "error" (too few candles), "none" (no breakout),
\* "unconfirmed" (breakout without volume confirmation), "long" or "short".
CycleSignal(fetch) ==
    LET f == fetchLast1000Candles(fetch)
        c == f.candles
        e == extractCandlesForChecks(c)
        cur == c[Len(c) - 1]
        b == checkWallAndSupportBreak(cur, e.last72, e.wall, e.support)
        green == calculateGreenCandlesAverageVolume(c)
        red == calculateRedCandlesAverageVolume(c)
        sig(kind, price) == [kind |-> kind, price |-> price, candles |-> Len(c)]
    IN  IF f.status = "panic" THEN sig("panic", 0)
        ELSE IF e.status = "panic" THEN sig("panic", 0)
        ELSE IF Len(c) < 2 THEN sig("panic", 0)
        ELSE IF e.status = "error" THEN sig("error", 0)
        ELSE IF b.wallBreak
        THEN IF RatioAbove06(green) /\ VolumeAboveRatio(cur.volume, green)
             THEN sig("long", cur.close) ELSE sig("unconfirmed", 0)
        ELSE IF b.supportBreak
        THEN IF RatioAbove06(red) /\ VolumeAboveRatio(cur.volume, red)
             THEN sig("short", cur.close) ELSE sig("unconfirmed", 0)
        ELSE sig("none", 0)

\* ------------------------------------------------------------------- inputs
PosOutcomes ==
    {[err |-> TRUE, n |-> 0]} \cup {[err |-> FALSE, n |-> k] : k \in 0..MaxPositions}

ReconFaults == {"none", "query", "get", "update", "audit", "commit"}

\* The inputs of isPostionActive.  The store fault is fixed where the
\* reconciler makes no store call that could fail (after a failed position
\* query) or only the Pending query (no position), which removes no behaviour.
ReconInputs ==
    {[pos |-> p, fault |-> f] : p \in PosOutcomes, f \in ReconFaults}
    \ {[pos |-> p, fault |-> f] : p \in {q \in PosOutcomes : q.err \/ q.n = 0},
                                 f \in {"get", "update", "audit", "commit"}}

CreateFaults == {"none", "map", "exists", "status", "create", "audit"}

\* balances in cents
Balances == {0, 10, 40}

BalanceOutcomes ==
    {[err |-> TRUE, amount |-> 0]} \cup {[err |-> FALSE, amount |-> b] : b \in Balances}

\* The inputs of one placement attempt.  Components the attempt never reads
\* (the exchange's answer when the quantity check fails, the store fault when
\* the exchange does not acknowledge) are fixed, which removes no behaviour.
\* The exchange acknowledges only a request whose quantity is at least 1, and
\* only while fewer than MaxExchOrders orders exist.
AttemptInputs(w, price) ==
    LET in(b, e, f) == [bal |-> b, ex |-> e, fault |-> f]
        bad == {b \in BalanceOutcomes : b.err \/ b.amount <= 0}
        good == BalanceOutcomes \ bad
        fillable == {b \in good : FloorQty(calculateMaxQuantity(price, b)) >= 1}
    IN  IF price <= 0 \/ ~w.orderProcessor
        THEN {in([err |-> TRUE, amount |-> 0], "err", "none")}
        ELSE {in(b, "err", "none") : b \in bad}
             \cup {in(b, e, "none") : b \in good, e \in {"err", "reject"}}
             \cup IF Len(w.exchOrders) < MaxExchOrders
                  THEN {in(b, "ack", f) : b \in fillable, f \in CreateFaults}
                  ELSE {}

GreenCandle(v) == [open |-> 20, high |-> 22, low |-> 18, close |-> 21, volume |-> v]
RedCandle(v) == [open |-> 21, high |-> 22, low |-> 18, close |-> 20, volume |-> v]
\* a red candle closing below the support 18, a green one closing above the
\* wall 22, and a candle whose close the exchange client failed to parse (0)
BreakDown(v) == [open |-> 21, high |-> 21, low |-> 16, close |-> 17, volume |-> v]
BreakUp(v) == [open |-> 20, high |-> 24, low |-> 20, close |-> 23, volume |-> v]
BadClose(v) == [open |-> 21, high |-> 21, low |-> 16, close |-> 0, volume |-> v]

IsRed(c) == c.close < c.open

\* A chronological series of n candles: the last is the open candle, the one
\* before it is cur, the run candles before cur have cur's colour and all
\* earlier ones the other colour; every filler has volume 1.
Series(n, run, cur) ==
    [i \in 1..n |->
        IF i = n THEN GreenCandle(1)
        ELSE IF i = n - 1 THEN cur
        ELSE IF (i >= n - 1 - run) = IsRed(cur) THEN RedCandle(1)
        ELSE GreenCandle(1)]

CandleCounts == {1, 60, 73, 75}
RunLengths == {5, 6}
CurCandles ==
    {BreakDown(0), BreakDown(1), BreakUp(0), BreakUp(1), RedCandle(1), BadClose(1)}

\* what FetchLastCandles returns: an error, or a series newest first
FetchOutcomes ==
    {[err |-> TRUE, candles |-> <<>>]}
    \cup {[err |-> FALSE, candles |-> Reverse(Series(n, run, cur))] :
            n \in CandleCounts, run \in RunLengths, cur \in CurCandles}

\* what the signal part of a cycle can come to, over all fetch outcomes
SignalOutcomes == {CycleSignal(fetch) : fetch \in FetchOutcomes}

\* prices (cents) a placement is called with directly
Prices == {0, 17, 23}

\* -------------------------------------------------------------------- state
VARIABLES
    orderProcessor,  \* FALSE when the worker was built without a processor
    orderPlaced,     \* DogeTradingSystemWorker.orderPlaced
    orders,          \* the orders table, in insertion order
    audit,           \* the order_audit table, in insertion order
    exchOrders,      \* the orders the exchange has acknowledged
    wm,              \* the WorkerManager, its cron scheduler and its context
    jobs,            \* the firings of the worker's cron entry that are under way
    obs              \* what the last operation observed, returned and logged
                     \* (storeFault: the store fault given to an operation
                     \* that was applied directly; input: the series given
                     \* to the signal part applied directly, wallBreak and
                     \* supportBreak: what its breakout test returned,
                     \* greenRatio and redRatio: what the two volume
                     \* computations return for the series; bybitStatus:
                     \* the status of a response an Order was built from,
                     \* statusID and mapErr: what its mapping returned; auditWrites: the
                     \* audit rows a service operation tried to write)

vars == <<orderProcessor, orderPlaced, orders, audit, exchOrders, obs, wm, jobs>>

\* the goroutines the scheduler can have under way at once
Jobs == {1, 2}

\* a firing: pc is where it stands, active the orderPlaced its reconciliation
\* returned, calls the requests it submitted to the exchange
\* late: the job was fired after RemoveWorker had taken the worker away
IdleJob == [pc |-> "idle", active |-> FALSE, calls |-> 0, late |-> FALSE]

\* NewWorkerManager.  worker is "absent", "enabled" or "disabled": the entry
\* of the workers map for the trading worker; entries counts the cron entries
\* added for it; cronRunning: the cron scheduler is started; cancelled: the
\* manager's context is cancelled; workerStopped: the worker's Stop has run;
\* removed: RemoveWorker has returned nil for the worker while it was enabled.
NewWorkerManager ==
    [isRunning |-> FALSE, cronRunning |-> FALSE, cancelled |-> FALSE,
     worker |-> "absent", entries |-> 0, workerStopped |-> FALSE,
     removed |-> FALSE]

\* obs of an operation that did nothing yet
Obs0 ==
    [op |-> "init", posErr |-> FALSE, positions |-> 0, pendingAtStart |-> 0,
     reconFault |-> "none", reconErr |-> FALSE, active |-> FALSE,
     fetched |-> FALSE,
     signal |-> "skipped", candles |-> 0, price |-> 0, attempts |-> 0, ret |-> EmptyID,
     panicked |-> FALSE, calls |-> <<>>, acks |-> <<>>, created |-> <<>>,
     unrecorded |-> FALSE, balanceQueries |-> 0, storeFault |-> "none",
     input |-> [n |-> 0, run |-> 0, cur |-> GreenCandle(0), spike |-> 0],
     wallBreak |-> FALSE, supportBreak |-> FALSE,
     greenRatio |-> Zero, redRatio |-> Zero,
     bybitStatus |-> "", statusID |-> 0, mapErr |-> FALSE,
     auditWrites |-> 0]

\* NewDogeTradingSystemWorker: a fresh store, orderPlaced false
Init ==
    /\ orderProcessor \in BOOLEAN
    /\ orderPlaced = FALSE
    /\ orders = <<>>
    /\ audit = <<>>
    /\ exchOrders = <<>>
    /\ obs = Obs0
    /\ wm = NewWorkerManager
    /\ jobs = [j \in Jobs |-> IdleJob]

\* the record w at the start of an operation
StartW ==
    [orderProcessor |-> orderProcessor, orderPlaced |-> orderPlaced,
     orders |-> orders, audit |-> audit, exchOrders |-> exchOrders,
     calls |-> <<>>, acks |-> <<>>, created |-> <<>>, unrecorded |-> FALSE,
     balanceQueries |-> 0]

\* the state and the observation an operation ends with
Finish(w, o) ==
    /\ orderPlaced' = w.orderPlaced
    /\ orders' = w.orders
    /\ audit' = w.audit
    /\ exchOrders' = w.exchOrders
    /\ obs' = [o EXCEPT !.calls = w.calls, !.acks = w.acks,
                        !.created = w.created, !.unrecorded = w.unrecorded,
                        !.balanceQueries = w.balanceQueries]
    /\ UNCHANGED orderProcessor

\* the placement a branch of executeTradingCycle calls
Place(side, w, price, in) ==
    IF side = "long" THEN placeLongOrder(w, price, in)
    ELSE placeShortOrder(w, price, in)

\* the retry block as it would be if it made its three attempts whatever
\* the placement returns
RetryAlways(w, price, side, o) ==
    \E in1 \in AttemptInputs(w, price) :
      LET a1 == Place(side, w, price, in1)
      IN  \E in2 \in AttemptInputs(a1.w, price) :
            LET a2 == Place(side, a1.w, price, in2)
            IN  \E in3 \in AttemptInputs(a2.w, price) :
                  LET a3 == Place(side, a2.w, price, in3)
                  IN  Finish(a3.w, [o EXCEPT !.attempts = 3, !.ret = a3.id])

\* the retry block of executeTradingCycle: a second and a third attempt, one
\* second apart, while the placement returns the empty id
Retry(w, price, side, o) ==
    \E in1 \in AttemptInputs(w, price) :
      LET a1 == Place(side, w, price, in1)
      IN  IF a1.id # EmptyID
          THEN Finish(a1.w, [o EXCEPT !.attempts = 1, !.ret = a1.id])
          ELSE \E in2 \in AttemptInputs(a1.w, price) :
                 LET a2 == Place(side, a1.w, price, in2)
                 IN  IF a2.id # EmptyID
                     THEN Finish(a2.w, [o EXCEPT !.attempts = 2, !.ret = a2.id])
                     ELSE \E in3 \in AttemptInputs(a2.w, price) :
                            LET a3 == Place(side, a2.w, price, in3)
                            IN  Finish(a3.w, [o EXCEPT !.attempts = 3,
                                                       !.ret = a3.id])

\* phase 0 as it would be if the flag were raised but never lowered
Phase0RaiseOnly(w, r) ==
    [w EXCEPT !.orders = r.orders, !.audit = r.audit,
              !.orderPlaced = @ \/ r.active]

\* phase 0 of executeTradingCycle after a reconciliation without error: the
\* store as the reconciler left it, and w.orderPlaced = orderPlaced
Phase0(w, r) ==
    [w EXCEPT !.orders = r.orders, !.audit = r.audit, !.orderPlaced = r.active]

\* executeTradingCycle, run by the scheduler's job wrapper (which recovers a
\* panic).  Inputs: what the exchange reports and returns, and the store call
\* that fails.
CycleOn(RI, SO) ==
    \E ri \in RI :
      LET pos == ri.pos
          rf == ri.fault
          w0 == StartW
          o0 == [Obs0 EXCEPT !.op = "cycle", !.posErr = pos.err,
                              !.positions = pos.n, !.reconFault = rf,
                              !.pendingAtStart =
                                  Len(GetByResult(orders, "Pending"))]
          r == isPostionActive(orders, audit, pos, rf)
          w1 == Phase0(w0, r)
          o1 == [o0 EXCEPT !.active = r.active]
      IN  IF ~orderProcessor
          THEN Finish(w0, [Obs0 EXCEPT !.op = "cycle", !.panicked = TRUE])
          ELSE IF r.err
          THEN Finish(w0, [o0 EXCEPT !.reconErr = TRUE])
          ELSE IF w1.orderPlaced
          THEN Finish(w1, o1)
          ELSE \E s \in SO :
                 LET o2 == [o1 EXCEPT !.fetched = TRUE, !.signal = s.kind,
                                      !.candles = s.candles,
                                      !.price = s.price,
                                      !.panicked = (s.kind = "panic")]
                 IN  IF s.kind = "long"
                     THEN Retry(w1, s.price, "long", o2)
                     ELSE IF s.kind = "short"
                     THEN Retry(w1, s.price, "short", o2)
                     ELSE Finish(w1, o2)

\* a cycle of the worker on its own, over all inputs
Cycle == CycleOn(ReconInputs, SignalOutcomes) /\ UNCHANGED <<wm, jobs>>

\* prices of the seeded rows are in dollars; they are only compared with
\* each other
TestOrders ==
    << [orderID |-> "TEST_ORDER_001", symbol |-> "BTCUSDT", side |-> "Buy",
        orderPrice |-> 45000, quantity |-> [num |-> 1, den |-> 1000],
        takeProfit |-> Some(46000), stopLoss |-> Some(44000),
        orderStatusID |-> GetByStatusName("New"), result |-> "Pending",
        pnl |-> Zero, pnlPercentage |-> Zero],
       [orderID |-> "TEST_ORDER_002", symbol |-> "ETHUSDT", side |-> "Sell",
        orderPrice |-> 3000, quantity |-> [num |-> 1, den |-> 10],
        takeProfit |-> Some(2900), stopLoss |-> Some(3100),
        orderStatusID |-> GetByStatusName("Filled"), result |-> "Profit",
        pnl |-> [num |-> 10, den |-> 1],
        pnlPercentage |-> [num |-> 33333, den |-> 10000]] >>

\* one iteration of the loop of SeedTestData: insert the row unless a row
\* with its order id exists
SeedOne(rows, o) ==
    IF Exists(rows, o.orderID) \/ ~BeforeCreate(o) THEN rows
    ELSE Append(rows, NormalizeResult(o))

\* database.SeedTestData
SeedTestData ==
    /\ orders' = SeedOne(SeedOne(orders, TestOrders[1]), TestOrders[2])
    /\ obs' = [Obs0 EXCEPT !.op = "seed"]
    /\ UNCHANGED <<orderProcessor, orderPlaced, audit, exchOrders, wm, jobs>>

IsTestOrderID(id) == id \in {TestOrders[i].orderID : i \in 1..Len(TestOrders)}

\* database.CleanupTestData: delete the rows whose order id is LIKE
\* 'TEST_ORDER_%' from orders and from order_audit
CleanupTestData ==
    LET keepOrder(r) == ~IsTestOrderID(r.orderID)
    IN  /\ orders' = SelectSeq(orders, keepOrder)
        /\ audit' = SelectSeq(audit, keepOrder)
        /\ obs' = [Obs0 EXCEPT !.op = "cleanup"]
        /\ UNCHANGED <<orderProcessor, orderPlaced, exchOrders, wm, jobs>>

Next == Cycle \/ SeedTestData \/ CleanupTestData

Spec == Init /\ [][Next]_vars

\* ------------------------------------------- the operations applied directly
\* placeLongOrder applied to a price, with the inputs of one attempt
CallPlaceLong ==
    /\ UNCHANGED <<wm, jobs>>
    /\ \E price \in Prices :
      \E in \in AttemptInputs(StartW, price) :
        LET a == placeLongOrder(StartW, price, in)
        IN  Finish(a.w, [Obs0 EXCEPT !.op = "placeLong", !.price = price,
                                     !.attempts = 1, !.ret = a.id,
                                     !.storeFault = in.fault])

\* placeShortOrder applied to a price, with the inputs of one attempt
CallPlaceShort ==
    /\ UNCHANGED <<wm, jobs>>
    /\ \E price \in Prices :
      \E in \in AttemptInputs(StartW, price) :
        LET a == placeShortOrder(StartW, price, in)
        IN  Finish(a.w, [Obs0 EXCEPT !.op = "placeShort", !.price = price,
                                     !.attempts = 1, !.ret = a.id,
                                     !.storeFault = in.fault])

\* isPostionActive applied on its own (it needs a processor)
CallReconcile ==
    /\ orderProcessor
    /\ UNCHANGED <<wm, jobs>>
    /\ \E ri \in ReconInputs :
         LET r == isPostionActive(orders, audit, ri.pos, ri.fault)
         IN  Finish([StartW EXCEPT !.orders = r.orders, !.audit = r.audit],
                    [Obs0 EXCEPT !.op = "reconcile", !.posErr = ri.pos.err,
                                 !.positions = ri.pos.n,
                                 !.reconFault = ri.fault,
                                 !.pendingAtStart =
                                     Len(GetByResult(orders, "Pending")),
                                 !.reconErr = r.err, !.active = r.active])

NextPlacement == CallPlaceLong \/ CallPlaceShort \/ CallReconcile

SpecPlacement == Init /\ [][NextPlacement]_vars

\* ------------------------------------------ the signal part applied directly
\* the series the signal part is applied to: Series(n, run, cur) with, when
\* spike > 0, the candle spike places before the open one replaced by a
\* candle that is neither red nor green and has the highest high and the
\* lowest low of the series
SignalCounts == {1, 72, 73, 74, 75, 80}
SignalRuns == {5, 6, 12}
AtWall(v) == [open |-> 20, high |-> 22, low |-> 20, close |-> 22, volume |-> v]
AtSupport(v) == [open |-> 21, high |-> 21, low |-> 18, close |-> 18, volume |-> v]
Spike == [open |-> 20, high |-> 25, low |-> 15, close |-> 20, volume |-> 1]
SignalCurs ==
    {BreakDown(0), BreakDown(1), BreakDown(2), BreakUp(0), BreakUp(1), BreakUp(2),
     RedCandle(1), GreenCandle(1), BadClose(1), AtWall(1), AtSupport(1)}
\* the first of the 72 candles before the last two, the candle before it
SignalSpikes == {SliceBack - 1, SliceBack}

\* every series without a spike, and the shortest series that hold a spike
SignalInputs ==
    {[n |-> n, run |-> run, cur |-> cur, spike |-> 0] :
        n \in SignalCounts, run \in SignalRuns, cur \in SignalCurs}
    \cup {[n |-> n, run |-> 5, cur |-> cur, spike |-> spike] :
            n \in {SliceBack, SliceBack + 1}, cur \in SignalCurs,
            spike \in SignalSpikes}

SignalSeries(in) ==
    LET c == Series(in.n, in.run, in.cur)
    IN  IF in.spike > 0 /\ in.n - in.spike >= 1
        THEN [c EXCEPT ![in.n - in.spike] = Spike] ELSE c

\* the fetch, extraction, breakout test and volume confirmation of
\* executeTradingCycle applied to a series the exchange returns
CallSignal ==
    \E in \in SignalInputs :
      LET c == SignalSeries(in)
          s == CycleSignal([err |-> FALSE, candles |-> Reverse(c)])
          e == extractCandlesForChecks(c)
          b == IF e.status = "ok"
               THEN checkWallAndSupportBreak(c[Len(c) - 1], e.last72, e.wall,
                                             e.support)
               ELSE [wallBreak |-> FALSE, supportBreak |-> FALSE]
      IN  /\ obs' = [Obs0 EXCEPT !.op = "signal", !.fetched = TRUE,
                                 !.signal = s.kind, !.candles = s.candles,
                                 !.price = s.price,
                                 !.panicked = (s.kind = "panic"),
                                 !.wallBreak = b.wallBreak,
                                 !.supportBreak = b.supportBreak,
                                 !.greenRatio =
                                     calculateGreenCandlesAverageVolume(c),
                                 !.redRatio =
                                     calculateRedCandlesAverageVolume(c),
                                 !.input = in]
          /\ UNCHANGED <<orderProcessor, orderPlaced, orders, audit, exchOrders, wm, jobs>>

NextSignal == CallSignal

SpecSignal == Init /\ [][NextSignal]_vars

\* ------------------------------- building the Order of a response, directly
\* the status strings of a response: the nine of Bybit V5, and others
BybitStatuses ==
    {"New", "PartiallyFilled", "Filled", "Cancelled", "Rejected", "Untriggered",
     "Triggered", "Deactivated", "PartiallyFilledCanceled",
     "", "Created", "Canceled", "new", "Active", "PendingCancel"}

\* createOrderFromBybitResponse applied to an acknowledged response
CallCreateOrderFromResponse ==
    \E status \in BybitStatuses : \E fault \in {"none", "map"} :
    \E side \in {"Buy", "Sell"} : \E price \in Prices \ {0} :
      LET resp == [orderID |-> ExchIds[1], side |-> side, errorCode |-> "0",
                   status |-> status]
          c == createOrderFromBybitResponse(
                   resp, price, [num |-> 40, den |-> price],
                   IF side = "Buy"
                   THEN calculateLongTakeProfit(price, TakeProfitPct)
                   ELSE calculateShortTakeProfit(price, TakeProfitPct),
                   IF side = "Buy"
                   THEN calculateLongStopLoss(price, StopLossPct)
                   ELSE calculateShortStopLoss(price, StopLossPct),
                   fault)
      IN  /\ obs' = [Obs0 EXCEPT !.op = "fromResponse", !.price = price,
                                 !.ret = resp.orderID,
                                 !.storeFault = fault,
                                 !.bybitStatus = status,
                                 !.statusID = c.order.orderStatusID,
                                 !.mapErr = c.err]
          /\ UNCHANGED <<orderProcessor, orderPlaced, orders, audit, exchOrders, wm, jobs>>

NextResponse == CallCreateOrderFromResponse

SpecResponse == Init /\ [][NextResponse]_vars

\* ------------------------------------------ the order service applied directly
ServiceIDs == {"A1", "A2"}
ServiceFaults == {"none", "audit", "commit"}

\* a long order with both prices set, a short order with neither
ServiceOrder(orderID) ==
    IF orderID = "A1"
    THEN [orderID |-> "A1", symbol |-> Symbol, side |-> "Buy",
          orderPrice |-> 20 * Scale, quantity |-> [num |-> 1, den |-> 1],
          takeProfit |-> Some(22 * Scale), stopLoss |-> Some(19 * Scale),
          orderStatusID |-> GetByStatusName("New"), result |-> "Pending",
          pnl |-> Zero, pnlPercentage |-> Zero]
    ELSE [orderID |-> orderID, symbol |-> Symbol, side |-> "Sell",
          orderPrice |-> 20 * Scale, quantity |-> [num |-> 1, den |-> 1],
          takeProfit |-> None, stopLoss |-> None,
          orderStatusID |-> GetByStatusName("Filled"), result |-> "Profit",
          pnl |-> Zero, pnlPercentage |-> Zero]

\* the orders UpdateOrder is given: an order of the table as it was
\* created, with one of its fields replaced, with all of the audited fields
\* replaced, and with a price that is not valid
ServiceUpdatesOf(id) ==
    LET o == ServiceOrder(id)
        p == 21 * Scale
        tp == IF o.takeProfit.nil THEN Some(19 * Scale) ELSE None
        sl == IF o.stopLoss.nil THEN Some(22 * Scale) ELSE None
        st == GetByStatusName("PartiallyFilled")
    IN  {o,
         [o EXCEPT !.orderPrice = p],
         [o EXCEPT !.takeProfit = tp],
         [o EXCEPT !.stopLoss = sl],
         [o EXCEPT !.orderStatusID = st],
         [o EXCEPT !.result = "Done"],
         [o EXCEPT !.quantity = [num |-> 2, den |-> 1]],
         [o EXCEPT !.orderPrice = p, !.takeProfit = tp, !.stopLoss = sl,
                   !.orderStatusID = st, !.result = "Done"],
         [o EXCEPT !.orderPrice = 0]}

ServiceUpdates == UNION {ServiceUpdatesOf(id) : id \in ServiceIDs}

ServiceStatusNames == {"Filled", "Unknown"}
ServiceResults == {"Profit", "Done"}
ServicePrices == {20 * Scale, 21 * Scale}

\* what a service operation leaves behind
ServiceDone(op, r, fault) ==
    /\ orders' = r.orders
    /\ audit' = r.audit
    /\ obs' = [Obs0 EXCEPT !.op = op, !.storeFault = fault,
                           !.ret = IF r.err THEN "error" ELSE "ok",
                           !.auditWrites = r.writes]
    /\ UNCHANGED <<orderProcessor, orderPlaced, exchOrders, wm, jobs>>

CallCreateOrder ==
    /\ Len(audit) < MaxAuditRows
    /\ \E id \in ServiceIDs :
         LET r == CreateOrder(orders, audit, ServiceOrder(id), "none")
         IN  ServiceDone("CreateOrder",
                         [err |-> r.err, orders |-> r.orders, audit |-> r.audit,
                          writes |-> IF Len(r.orders) > Len(orders) THEN 1 ELSE 0],
                         "none")

CallUpdateOrder ==
    /\ Len(audit) < MaxAuditRows
    /\ \E id \in 0..Len(orders) : \E order \in ServiceUpdates :
       \E fault \in ServiceFaults :
         ServiceDone("UpdateOrder", UpdateOrder(orders, audit, id, order, fault),
                     fault)

CallUpdateOrderStatus ==
    /\ Len(audit) < MaxAuditRows
    /\ \E orderID \in ServiceIDs : \E statusName \in ServiceStatusNames :
       \E fault \in ServiceFaults :
         ServiceDone("UpdateOrderStatus",
                     UpdateOrderStatus(orders, audit, orderID, statusName, fault),
                     fault)

CallUpdateOrderResult ==
    /\ Len(audit) < MaxAuditRows
    /\ \E orderID \in ServiceIDs : \E result \in ServiceResults :
       \E fault \in ServiceFaults :
         LET r == UpdateOrderResult(orders, audit, orderID, result, fault)
         IN  ServiceDone("UpdateOrderResult",
                         [err |-> r.err, orders |-> r.orders, audit |-> r.audit,
                          writes |-> IF r.audit # audit \/ (r.err /\ fault \in {"audit", "commit"}) THEN 1 ELSE 0],
                         fault)

CallUpdateOrderPnL ==
    /\ Len(audit) < MaxAuditRows
    /\ \E orderID \in ServiceIDs : \E currentPrice \in ServicePrices :
       \E fault \in ServiceFaults :
         ServiceDone("UpdateOrderPnL",
                     UpdateOrderPnL(orders, audit, orderID, currentPrice, fault),
                     fault)

NextService ==
    \/ CallCreateOrder
    \/ CallUpdateOrder
    \/ CallUpdateOrderStatus
    \/ CallUpdateOrderResult
    \/ CallUpdateOrderPnL

SpecService == Init /\ [][NextService]_vars

\* ------------------------------------------------------- the worker manager
\* the cron entries one worker is given at most
MaxEntries == 2

\* what a manager operation leaves behind
ManagerDone(op, m, err) ==
    /\ wm' = m
    /\ obs' = [Obs0 EXCEPT !.op = op, !.ret = IF err THEN "error" ELSE "ok"]
    /\ UNCHANGED <<orderProcessor, orderPlaced, orders, audit, exchOrders, jobs>>

\* WorkerManager.RegisterWorker of the trading worker: a second registration
\* is an error, a disabled worker is only put into the map, an enabled one
\* gets a cron entry running the job wrapper
RegisterWorker(enabled) ==
    IF wm.worker # "absent" THEN ManagerDone("RegisterWorker", wm, TRUE)
    ELSE IF ~enabled
    THEN ManagerDone("RegisterWorker", [wm EXCEPT !.worker = "disabled"], FALSE)
    ELSE /\ wm.entries < MaxEntries
         /\ ManagerDone("RegisterWorker",
                        [wm EXCEPT !.worker = "enabled", !.entries = @ + 1],
                        FALSE)

\* WorkerManager.RemoveWorker: stops the worker and deletes it from the map;
\* the cron entry stays
RemoveWorker ==
    IF wm.worker = "absent" THEN ManagerDone("RemoveWorker", wm, TRUE)
    ELSE ManagerDone("RemoveWorker",
                     [wm EXCEPT !.workerStopped = TRUE, !.worker = "absent",
                                !.removed = @ \/ wm.worker = "enabled"],
                     FALSE)

\* WorkerManager.Start: nothing when already running; otherwise isRunning is
\* set, and the cron is started unless no enabled worker is registered
Start ==
    IF wm.isRunning THEN ManagerDone("Start", wm, FALSE)
    ELSE IF wm.worker # "enabled"
    THEN ManagerDone("Start", [wm EXCEPT !.isRunning = TRUE], FALSE)
    ELSE ManagerDone("Start",
                     [wm EXCEPT !.isRunning = TRUE, !.cronRunning = TRUE], FALSE)

\* WorkerManager.Stop: nothing when not running; otherwise the cron is
\* stopped (waiting for the jobs under way for 30 seconds at most), every
\* worker of the map is stopped, the context is cancelled
Stop ==
    IF ~wm.isRunning THEN ManagerDone("Stop", wm, FALSE)
    ELSE ManagerDone("Stop",
                     [wm EXCEPT !.cronRunning = FALSE,
                                !.workerStopped = @ \/ wm.worker # "absent",
                                !.cancelled = TRUE, !.isRunning = FALSE],
                     FALSE)

\* the cron scheduler fires an entry of the worker: the job wrapper starts
\* in a goroutine of its own
Fire(j) ==
    /\ wm.cronRunning
    /\ wm.entries > 0
    /\ jobs[j].pc = "idle"
    /\ jobs' = [jobs EXCEPT ![j] =
                    [IdleJob EXCEPT !.pc = "fired",
                                    !.late = wm.removed /\ wm.worker = "absent"]]
    /\ obs' = [Obs0 EXCEPT !.op = "fire"]
    /\ UNCHANGED <<orderProcessor, orderPlaced, orders, audit, exchOrders, wm>>

\* the job wrapper as it would be without the test of the context
JobCheckNoContext(j) ==
    /\ jobs[j].pc = "fired"
    /\ jobs' = [jobs EXCEPT ![j].pc = "run"]
    /\ obs' = [Obs0 EXCEPT !.op = "begin"]
    /\ UNCHANGED <<orderProcessor, orderPlaced, orders, audit, exchOrders, wm>>

\* the job wrapper up to its call of the worker: it returns when the
\* manager's context is cancelled
JobCheck(j) ==
    /\ jobs[j].pc = "fired"
    /\ IF wm.cancelled
       THEN /\ jobs' = [jobs EXCEPT ![j] = IdleJob]
            /\ obs' = [Obs0 EXCEPT !.op = "skipped"]
       ELSE /\ jobs' = [jobs EXCEPT ![j].pc = "run"]
            /\ obs' = [Obs0 EXCEPT !.op = "begin"]
    /\ UNCHANGED <<orderProcessor, orderPlaced, orders, audit, exchOrders, wm>>

\* What the exchange and the store give a cycle the scheduler runs: after
\* the worker's Stop (context cancelled, database closed) the position query
\* or the Pending query fails; before it there is no position here.
ScheduledReconInputs ==
    IF wm.workerStopped
    THEN {[pos |-> [err |-> TRUE, n |-> 0], fault |-> "none"],
          [pos |-> [err |-> FALSE, n |-> 0], fault |-> "query"]}
    ELSE {[pos |-> [err |-> FALSE, n |-> 0], fault |-> "none"]}

\* and the candles show no confirmed breakout
ScheduledSignals == {s \in SignalOutcomes : s.kind \notin {"long", "short"}}

\* the job wrapper's call of ExecuteTradingCycle, and its return
JobRun(j) ==
    /\ jobs[j].pc = "run"
    /\ jobs' = [jobs EXCEPT ![j] = IdleJob]
    /\ CycleOn(ScheduledReconInputs, ScheduledSignals)
    /\ UNCHANGED wm

NextManager ==
    \/ \E enabled \in BOOLEAN : RegisterWorker(enabled)
    \/ RemoveWorker
    \/ Start
    \/ Stop
    \/ \E j \in Jobs : Fire(j)
    \/ \E j \in Jobs : JobCheck(j)
    \/ \E j \in Jobs : JobRun(j)

SpecManager == Init /\ [][NextManager]_vars

\* ------------------------------------------------------ overlapping cycles
\* Two firings of the worker's entry run executeTradingCycle on the same
\* worker at once (the cron starts every firing in a goroutine of its own and
\* the worker has no lock).  A cycle is cut at its accesses to the shared
\* w.orderPlaced; the store and the exchange serialise their own calls.

\* what a step of a cycle leaves behind when it touches neither the store
\* nor the exchange
CycleStep(j, job, flag, op) ==
    /\ jobs' = [jobs EXCEPT ![j] = job]
    /\ orderPlaced' = flag
    /\ obs' = [Obs0 EXCEPT !.op = op, !.active = job.active]
    /\ UNCHANGED <<orderProcessor, orders, audit, exchOrders, wm>>

\* phase 0 up to the return of isPostionActive into the local orderPlaced
CycleReconcile(j) ==
    /\ jobs[j].pc = "idle"
    /\ \E ri \in ReconInputs :
         LET r == isPostionActive(orders, audit, ri.pos, ri.fault)
         IN  IF ~orderProcessor
             THEN CycleStep(j, IdleJob, orderPlaced, "panic")
             ELSE /\ jobs' = [jobs EXCEPT ![j] =
                                 IF r.err THEN IdleJob
                                 ELSE [IdleJob EXCEPT !.pc = "write",
                                                      !.active = r.active]]
                  /\ orders' = r.orders
                  /\ audit' = r.audit
                  /\ obs' = [Obs0 EXCEPT !.op = "reconcile",
                                         !.posErr = ri.pos.err,
                                         !.positions = ri.pos.n,
                                         !.reconFault = ri.fault,
                                         !.reconErr = r.err,
                                         !.active = r.active]
                  /\ UNCHANGED <<orderProcessor, orderPlaced, exchOrders, wm>>

\* w.orderPlaced = orderPlaced
CycleWriteFlag(j) ==
    /\ jobs[j].pc = "write"
    /\ CycleStep(j, [jobs[j] EXCEPT !.pc = "read"], jobs[j].active, "write")

\* if w.orderPlaced { return }: the read of the field races with the other
\* cycle's write, so it yields what the field holds or, when the build keeps
\* the value just written in a register, the cycle's own value
CycleReadFlag(j) ==
    /\ jobs[j].pc = "read"
    /\ \E seen \in {orderPlaced, jobs[j].active} :
         CycleStep(j, [jobs[j] EXCEPT !.pc = IF seen THEN "done" ELSE "trade"],
                   orderPlaced, "read")

\* the phases after phase 0: the signal, and the placement with its retries
CycleTrade(j) ==
    /\ jobs[j].pc = "trade"
    /\ \E s \in SignalOutcomes :
         LET o == [Obs0 EXCEPT !.op = "trade", !.active = jobs[j].active,
                               !.fetched = TRUE, !.signal = s.kind,
                               !.candles = s.candles, !.price = s.price,
                               !.panicked = (s.kind = "panic")]
         IN  IF s.kind \in {"long", "short"}
             THEN Retry(StartW, s.price, s.kind, o)
             ELSE Finish(StartW, o)
    /\ jobs' = [jobs EXCEPT ![j].pc = "done", ![j].calls = Len(obs'.calls)]
    /\ UNCHANGED wm

\* executeTradingCycle returns to the job wrapper
CycleReturn(j) ==
    /\ jobs[j].pc = "done"
    /\ CycleStep(j, IdleJob, orderPlaced, "return")

NextOverlap ==
    \/ \E j \in Jobs : CycleReconcile(j)
    \/ \E j \in Jobs : CycleWriteFlag(j)
    \/ \E j \in Jobs : CycleReadFlag(j)
    \/ \E j \in Jobs : CycleTrade(j)
    \/ \E j \in Jobs : CycleReturn(j)

SpecOverlap == Init /\ [][NextOverlap]_vars

\* ------------------------------------------------------------------ claims
PlacementOps == {"placeLong", "placeShort"}

\* the rows of orders' that orders has no row for
NewRowIDs(before, after) ==
    {after[i].orderID : i \in {k \in 1..Len(after) : ~Exists(before, after[k].orderID)}}

\* C1: a cycle that starts while a local Pending order exists, or while the
\* exchange reports an open position, submits no order to the exchange.
C1_SingleFlight ==
    (obs.op = "cycle" /\ (obs.pendingAtStart > 0 \/ obs.positions > 0))
        => obs.calls = <<>>

\* C2: after any sequence of cycles at most one Order row has the result
\* Pending.
C2_AtMostOnePending == Len(GetByResult(orders, "Pending")) <= 1

\* a cycle that began with a Pending row, got an order acknowledged by the
\* exchange, and still leaves one Pending row
C2_Witness ==
    /\ obs.op = "cycle"
    /\ obs.pendingAtStart = 1
    /\ obs.acks # <<>>
    /\ Len(GetByResult(orders, "Pending")) = 1

\* C3: a cycle in which the exchange reports a position while a Pending order
\* exists and the store is healthy sets the result of the newest Pending order
\* to Done and appends exactly one audit row (result, Pending, Done), both in
\* the same step, and changes nothing else in the store.
C3_ReconcileMarksDone ==
    [][(/\ obs'.op = "cycle"
        /\ ~obs'.panicked
        /\ obs'.positions > 0
        /\ obs'.pendingAtStart > 0
        /\ obs'.reconFault = "none")
       => LET p == GetByResult(orders, "Pending")[1]
          IN  /\ Len(orders') = Len(orders)
              /\ \A i \in 1..Len(orders) :
                    orders'[i] = IF orders[i].orderID = p.orderID
                                 THEN [orders[i] EXCEPT !.result = "Done"]
                                 ELSE orders[i]
              /\ audit' = Append(audit, [orderID |-> p.orderID,
                                         fieldName |-> "result",
                                         oldValue |-> "Pending",
                                         newValue |-> "Done"])]_vars

\* a cycle reconciled a Pending order: a Done row and its audit row exist
C3_Witness ==
    /\ obs.op = "cycle"
    /\ obs.positions > 0
    /\ obs.pendingAtStart > 0
    /\ obs.reconFault = "none"
    /\ \E i \in 1..Len(orders) :
          /\ orders[i].result = "Done"
          /\ audit # <<>>
          /\ audit[Len(audit)] = ResultAudit(orders[i].orderID, "Pending", "Done")

\* C4: whenever the exchange reports an active position at the start of a
\* cycle, with or without a Pending order (the Pending query having answered),
\* the reconciler reports active and the cycle fetches no candles and places
\* no order.
C4_PositionSkipsSignal ==
    (/\ obs.op = "cycle"
     /\ ~obs.panicked
     /\ obs.positions > 0
     /\ obs.reconFault # "query")
        => (obs.active /\ ~obs.fetched /\ obs.calls = <<>>)

\* C5: a cycle in which the exchange reports a position and no Pending order
\* is left changes no Order row and appends no audit row, and (the Pending
\* query having answered) reports active without an error.
C5_ReconcileIdempotent ==
    [][(/\ obs'.op = "cycle"
        /\ ~obs'.panicked
        /\ obs'.positions > 0
        /\ obs'.pendingAtStart = 0)
       => /\ orders' = orders
          /\ audit' = audit
          /\ (obs'.reconFault # "query" => obs'.active /\ ~obs'.reconErr)]_vars

\* a cycle ran the reconciliation again after an order was marked Done
C5_Witness ==
    /\ obs.op = "cycle"
    /\ obs.positions > 0
    /\ obs.pendingAtStart = 0
    /\ obs.active
    /\ \E i \in 1..Len(orders) : orders[i].result = "Done"
    /\ \E k \in 1..Len(audit) : audit[k].newValue = "Done"

\* C6: a cycle attempts a placement at most 3 times, and when the third
\* attempt fails too the cycle has created no Order row, added no audit row
\* and left orderPlaced false.
C6_BoundedRetry ==
    [][obs'.op = "cycle"
       => /\ obs'.attempts <= 3
          /\ Len(obs'.calls) <= 3
          /\ obs'.balanceQueries <= 3
          /\ (obs'.attempts = 3 /\ obs'.ret = EmptyID)
                => /\ orders' = orders
                   /\ audit' = audit
                   /\ obs'.created = <<>>
                   /\ ~orderPlaced']_vars

\* three submissions to the exchange failed in one cycle
C6_Witness ==
    /\ obs.op = "cycle"
    /\ obs.attempts = 3
    /\ obs.ret = EmptyID
    /\ Len(obs.calls) = 3
    /\ ~orderPlaced

\* C7: when the exchange acknowledged the order and recording it failed, the
\* placement returns the acknowledged (non-empty) order id and no Order row
\* has that id; a placement the exchange did not acknowledge returns the
\* empty id.
C7_PlacedUnrecorded ==
    obs.op \in PlacementOps
        => /\ (obs.acks # <<>> /\ obs.created = <<>>)
                => /\ obs.unrecorded
                   /\ obs.ret # EmptyID
                   /\ obs.ret = obs.acks[1]
                   /\ ~Exists(orders, obs.ret)
           /\ obs.acks = <<>> => (obs.ret = EmptyID /\ ~obs.unrecorded)

\* an acknowledged short order whose row could not be recorded
C7_Witness ==
    /\ obs.op = "placeShort"
    /\ obs.acks # <<>>
    /\ obs.unrecorded
    /\ obs.ret # EmptyID
    /\ ~Exists(orders, obs.ret)

\* C8: every Order row an operation creates carries an order id the exchange
\* acknowledged earlier in the same operation; an operation whose placement
\* was not acknowledged creates no row.
C8_NoSpeculativeOrders ==
    [][obs'.op \in PlacementOps
       => /\ \A id \in NewRowIDs(orders, orders') :
                /\ \E j \in 1..Len(obs'.acks) : obs'.acks[j] = id
                /\ \E j \in 1..Len(exchOrders') : exchOrders'[j].orderID = id
          /\ obs'.acks = <<>> => orders' = orders]_vars

\* a placement created the row of the order the exchange acknowledged
C8_Witness ==
    /\ obs.op = "placeLong"
    /\ obs.created # <<>>
    /\ obs.acks = obs.created
    /\ Exists(orders, obs.created[1])

\* C9: a placement whose price is <= 0 or whose quantity floor(balance/price)
\* is <= 0 submits nothing to the exchange and persists nothing: every
\* request submitted has a quantity of at least 1.
C9_NoCallWithoutQuantity ==
    obs.op \in PlacementOps
        => /\ \A i \in 1..Len(obs.calls) : obs.calls[i].qty > 0
           /\ obs.price <= 0 => (obs.calls = <<>> /\ obs.created = <<>>)

\* C10: after an acknowledged placement whose persistence succeeded, exactly
\* one Order row has the order id and at least one audit row with the field
\* name created exists for it.
C10_CreatedAuditAlways ==
    obs.op \in PlacementOps
        => \A i \in 1..Len(obs.created) :
              /\ Len(GetByOrderID(orders, obs.created[i])) = 1
              /\ \E k \in 1..Len(audit) :
                    /\ audit[k].orderID = obs.created[i]
                    /\ audit[k].fieldName = "created"

\* C12: when a step of the reconciler fails (the position query, the Pending
\* query, or the update that advances the Pending order to Done), the cycle
\* reports the failure and ends: it fetches no candles and places no order.
C12_ReconcilerFailureEndsCycle ==
    (/\ obs.op = "cycle"
     /\ ~obs.panicked
     /\ \/ obs.posErr
        \/ obs.reconFault = "query"
        \/ /\ obs.positions > 0
           /\ obs.pendingAtStart > 0
           /\ obs.reconFault \in {"get", "update", "audit", "commit"})
        => (obs.reconErr /\ ~obs.fetched /\ obs.calls = <<>>)

\* C13: for every candle series of 1 to 73 entries the signal detection of a
\* cycle ends with the precondition error, not with a panic, and the cycle
\* makes no balance query and no placement.
C13_ShortSeriesIsError ==
    (obs.op = "cycle" /\ obs.fetched /\ obs.candles \in 1..(SliceBack - 1))
        => /\ obs.signal = "error"
           /\ ~obs.panicked
           /\ obs.balanceQueries = 0
           /\ obs.calls = <<>>

\* a cycle that found no exchange position and no confirmed breakout
NoOpCycle(o) ==
    /\ o.op = "cycle"
    /\ ~o.posErr
    /\ ~o.reconErr
    /\ o.positions = 0
    /\ ~(o.panicked /\ ~o.fetched)
    /\ o.signal \notin {"long", "short"}

C16_ResultMonotonic ==
    [][/\ \A j \in 1..Len(orders') :
             orders'[j].orderID \in NewRowIDs(orders, orders')
                => orders'[j].result = "Pending"
       /\ \A i \in 1..Len(orders) : \A j \in 1..Len(orders') :
             (orders[i].result # "Pending" /\ orders'[j].orderID = orders[i].orderID)
                => orders'[j].result # "Pending"]_vars

\* a placement created a Pending row after an earlier order was marked Done
C16_Witness ==
    /\ obs.op \in PlacementOps
    /\ obs.created # <<>>
    /\ \E i \in 1..Len(orders) : orders[i].result = "Done"
    /\ \E j \in 1..Len(orders) :
          orders[j].orderID = obs.created[1] /\ orders[j].result = "Pending"

\* C17: after a placement that the exchange acknowledged, with a healthy
\* store, exactly one Order row has the acknowledged id, with side Sell for a
\* short placement and Buy for a long one, the result Pending, and take
\* profit and stop loss on the right sides of the order price.
C17_PlacementPersisted ==
    (obs.op \in PlacementOps /\ obs.acks # <<>> /\ obs.storeFault = "none")
        => LET rows == GetByOrderID(orders, obs.acks[1])
           IN  /\ Len(rows) = 1
               /\ rows[1].result = "Pending"
               /\ obs.op = "placeShort"
                     => /\ rows[1].side = "Sell"
                        /\ rows[1].takeProfit.v < rows[1].orderPrice
                        /\ rows[1].stopLoss.v > rows[1].orderPrice
               /\ obs.op = "placeLong"
                     => /\ rows[1].side = "Buy"
                        /\ rows[1].takeProfit.v > rows[1].orderPrice
                        /\ rows[1].stopLoss.v < rows[1].orderPrice

\* C18: every request a placement submits carries take profit = price*1.03
\* and stop loss = price*0.992 (long), take profit = price*0.97 and stop
\* loss = price*1.008 (short), hence take profit and stop loss on the right
\* sides of the price.  Prices are compared in 1/1000 cent.
C18_FixedOffsetsSent ==
    obs.op \in PlacementOps
        => \A i \in 1..Len(obs.calls) :
              LET req == obs.calls[i]
                  p == obs.price * 1000
              IN  IF obs.op = "placeLong"
                  THEN /\ req.takeProfit = obs.price * 1030
                       /\ req.stopLoss = obs.price * 992
                       /\ req.takeProfit > p
                       /\ req.stopLoss < p
                  ELSE /\ req.takeProfit = obs.price * 970
                       /\ req.stopLoss = obs.price * 1008
                       /\ req.takeProfit < p
                       /\ req.stopLoss > p

\* The confirmation rule as C14 states it: walking back from the
\* second-to-last candle until 10 candles of the colour are seen or the series
\* is exhausted, the volume of the candles of the colour and the volume of all
\* candles scanned.
RECURSIVE SpanWalk(_, _, _, _, _, _)
SpanWalk(c, i, red, count, matching, general) ==
    IF i >= 1 /\ count < 10
    THEN LET m == IF red THEN c[i].close < c[i].open ELSE c[i].close > c[i].open
         IN  SpanWalk(c, i - 1, red, IF m THEN count + 1 ELSE count,
                      IF m THEN matching + c[i].volume ELSE matching,
                      general + c[i].volume)
    ELSE [matching |-> matching, general |-> general]

\* matching/general > 0.6 and the breaking candle's volume > 1.2 * matching/general
StatedConfirmation(c, red) ==
    LET r == SpanWalk(c, Len(c) - 1, red, 0, 0, 0)
    IN  /\ r.general > 0
        /\ r.matching * 10 > 6 * r.general
        /\ c[Len(c) - 1].volume * r.general * 10 > 12 * r.matching

\* C14: given a breakout, the cycle attempts a placement iff the volume of
\* the breaking colour over the scanned volume is above 0.6 and the breaking
\* candle's volume is above 1.2 times that ratio: long on a wall break,
\* short on a support break.
C14_VolumeConfirmation ==
    (obs.op = "signal" /\ obs.input.n >= SliceBack)
        => LET c == SignalSeries(obs.input)
               e == extractCandlesForChecks(c)
               b == checkWallAndSupportBreak(c[Len(c) - 1], e.last72, e.wall,
                                             e.support)
           IN  /\ b.wallBreak
                    => (obs.signal = "long" <=> StatedConfirmation(c, FALSE))
               /\ b.supportBreak
                    => (obs.signal = "short" <=> StatedConfirmation(c, TRUE))

\* the rows appended to a table by a step
Appended(before, after) == SubSeq(after, Len(before) + 1, Len(after))

\* the fields of an Order whose transitions are audited, their values and
\* the text of their values in an audit row
AuditedFields ==
    {"order_price", "take_profit_price", "stop_loss_price", "order_status_id",
     "result"}

FieldValue(o, f) ==
    CASE f = "order_price" -> [nil |-> FALSE, v |-> o.orderPrice]
      [] f = "take_profit_price" -> o.takeProfit
      [] f = "stop_loss_price" -> o.stopLoss
      [] f = "order_status_id" -> [nil |-> FALSE, v |-> o.orderStatusID]
      [] f = "result" -> [nil |-> FALSE, v |-> o.result]

FieldText(o, f) ==
    CASE f = "order_price" -> Sprintf8(o.orderPrice)
      [] f = "take_profit_price" -> SprintfNullable(o.takeProfit)
      [] f = "stop_loss_price" -> SprintfNullable(o.stopLoss)
      [] f = "order_status_id" -> SprintfD(o.orderStatusID)
      [] f = "result" -> o.result

FieldDiffers(old, new, f) ==
    \/ FieldValue(old, f).nil # FieldValue(new, f).nil
    \/ /\ ~FieldValue(old, f).nil /\ ~FieldValue(new, f).nil
       /\ FieldValue(old, f).v # FieldValue(new, f).v

\* C11: in UpdateOrder, UpdateOrderStatus and UpdateOrderResult a failed
\* audit write makes the operation return an error and leaves the orders (and
\* the audit table) as they were, and no step of these operations changes an
\* audited field of an Order without appending an audit row for that Order.
C11_AuditAtomicity ==
    [][obs'.op \in {"UpdateOrder", "UpdateOrderStatus", "UpdateOrderResult"}
         => /\ (obs'.storeFault = "audit" /\ obs'.auditWrites > 0)
                 => /\ obs'.ret = "error"
                    /\ orders' = orders
                    /\ audit' = audit
            /\ obs'.ret = "error" => (orders' = orders /\ audit' = audit)
            /\ Len(orders') = Len(orders)
            /\ \A i \in 1..Len(orders) :
                 (\E f \in AuditedFields : FieldDiffers(orders[i], orders'[i], f))
                    => \E k \in 1..Len(Appended(audit, audit')) :
                          Appended(audit, audit')[k].orderID = orders[i].orderID]_vars

\* an audit write of UpdateOrder failed with an Order in the table
C11_Witness ==
    /\ obs.op = "UpdateOrder"
    /\ obs.storeFault = "audit"
    /\ obs.auditWrites > 0
    /\ obs.ret = "error"
    /\ orders # <<>>

\* C19: a successful UpdateOrder appends exactly one audit row for each of
\* order price, take-profit, stop-loss, status reference and result whose
\* value differs between the stored Order and the saved one (old and new
\* value as text, nil as no value), and no other row.
C19_OneRowPerChangedField ==
    [][(obs'.op = "UpdateOrder" /\ obs'.ret = "ok")
         => LET N == Appended(audit, audit')
            IN  /\ Len(orders') = Len(orders)
                /\ SubSeq(audit', 1, Len(audit)) = audit
                /\ \A k \in 1..Len(N) :
                     /\ N[k].fieldName \in AuditedFields
                     /\ \E i \in 1..Len(orders) : orders[i].orderID = N[k].orderID
                /\ \A i \in 1..Len(orders) : \A f \in AuditedFields :
                     LET hits == {k \in 1..Len(N) :
                                     /\ N[k].orderID = orders[i].orderID
                                     /\ N[k].fieldName = f}
                     IN  IF FieldDiffers(orders[i], orders'[i], f)
                         THEN /\ Cardinality(hits) = 1
                              /\ \A k \in hits :
                                   /\ N[k].oldValue = FieldText(orders[i], f)
                                   /\ N[k].newValue = FieldText(orders'[i], f)
                         ELSE hits = {}]_vars

\* UpdateOrder changed all five fields of an Order whose take-profit was nil
C19_Witness ==
    /\ obs.op = "UpdateOrder"
    /\ obs.ret = "ok"
    /\ obs.auditWrites = Cardinality(AuditedFields)
    /\ \E k \in 1..Len(audit) :
         /\ audit[k].fieldName = "take_profit_price"
         /\ audit[k].oldValue = NULL
         /\ audit[k].newValue # NULL

\* C20: every audit row appended by UpdateOrder, UpdateOrderStatus,
\* UpdateOrderResult or UpdateOrderPnL has an old value different from its
\* new value, and such an operation that leaves the orders as they were
\* appends no audit row.
C20_NoRedundantAuditRows ==
    [][obs'.op \in {"UpdateOrder", "UpdateOrderStatus", "UpdateOrderResult",
                    "UpdateOrderPnL"}
         => /\ \A k \in 1..Len(Appended(audit, audit')) :
                 Appended(audit, audit')[k].oldValue
                    # Appended(audit, audit')[k].newValue
            /\ orders' = orders => audit' = audit]_vars

\* C21: only a failed exchange call is retried: an attempt that stops on a
\* precondition (price, balance query, quantity) is the last of its cycle, so
\* a cycle makes at most one attempt and one balance query more than it
\* submitted requests to the exchange.
C21_PreconditionNotRetried ==
    (obs.op = "cycle" /\ obs.signal \in {"long", "short"})
        => /\ obs.attempts <= Len(obs.calls) + 1
           /\ obs.balanceQueries <= Len(obs.calls) + 1

\* C22: with wall the highest high and support the lowest low of the 72
\* candles before the last two and c the close of the second-to-last candle,
\* wallBreak holds iff c > wall and supportBreak iff c < support and not
\* wallBreak; the two are never both true and neither is when
\* support <= c <= wall.
C22_BreakoutTest ==
    (obs.op = "signal" /\ obs.input.n >= SliceBack)
        => LET s == SignalSeries(obs.input)
               n == Len(s)
               wall == SetMax({s[i].high : i \in (n - 73)..(n - 2)})
               support == SetMin({s[i].low : i \in (n - 73)..(n - 2)})
               c == s[n - 1].close
           IN  /\ obs.wallBreak <=> c > wall
               /\ obs.supportBreak <=> (c < support /\ ~obs.wallBreak)
               /\ ~(obs.wallBreak /\ obs.supportBreak)
               /\ (support <= c /\ c <= wall)
                    => (~obs.wallBreak /\ ~obs.supportBreak)

\* a close above the wall of the 72 candles while the candle just before
\* them has a higher high
C22_Witness ==
    /\ obs.op = "signal"
    /\ obs.wallBreak
    /\ ~obs.supportBreak
    /\ obs.input.spike = SliceBack
    /\ obs.input.n > SliceBack

\* C23: the ratio of the green and of the red computation is the volume of
\* the candles of the colour over the volume of all candles of the span the
\* walk of the colour scanned, and so lies between 0 and 1.
C23_SameSpanRatio ==
    (obs.op = "signal" /\ obs.input.n >= 2)
        => LET c == SignalSeries(obs.input)
               g == SpanWalk(c, Len(c) - 1, FALSE, 0, 0, 0)
               r == SpanWalk(c, Len(c) - 1, TRUE, 0, 0, 0)
           IN  /\ obs.greenRatio = [num |-> g.matching, den |-> g.general]
               /\ obs.redRatio = [num |-> r.matching, den |-> r.general]
               /\ obs.greenRatio.den > 0 => obs.greenRatio.num <= obs.greenRatio.den
               /\ obs.redRatio.den > 0 => obs.redRatio.num <= obs.redRatio.den
               /\ obs.greenRatio.num > 0 => obs.greenRatio.den > 0
               /\ obs.redRatio.num > 0 => obs.redRatio.den > 0

\* C24: each of the nine exchange status strings maps to the local status of
\* the same name and every other string to "New"; the mapping fails only
\* when the status lookup fails.
C24_StatusMapping ==
    obs.op = "fromResponse"
        => /\ obs.mapErr <=> obs.storeFault = "map"
           /\ ~obs.mapErr
                => /\ obs.statusID \in 1..Len(StatusNames)
                   /\ StatusNames[obs.statusID] =
                        IF obs.bybitStatus \in
                             {"New", "PartiallyFilled", "Filled", "Cancelled",
                              "Rejected", "Untriggered", "Triggered",
                              "Deactivated", "PartiallyFilledCanceled"}
                        THEN obs.bybitStatus ELSE "New"

\* a status that is not one of the nine was mapped to "New"
C24_Witness ==
    /\ obs.op = "fromResponse"
    /\ obs.bybitStatus = "Canceled"
    /\ ~obs.mapErr
    /\ obs.statusID = GetByStatusName("New")

\* C25: once the manager's context is cancelled, a firing that reaches the
\* job wrapper's test returns without calling the worker: the job ends, no
\* cycle runs for it and the store, the exchange and the flag stay as they
\* were.
C25_CancelledFiringSkips ==
    [][\A j \in Jobs :
         (wm.cancelled /\ jobs[j].pc = "fired" /\ jobs'[j].pc # "fired")
            => /\ jobs'[j].pc = "idle"
               /\ obs'.op = "skipped"
               /\ UNCHANGED <<orderPlaced, orders, audit, exchOrders>>]_vars

\* a firing of the restarted scheduler was skipped after the cancellation
C25_Witness ==
    /\ obs.op = "skipped"
    /\ wm.cancelled
    /\ wm.cronRunning

\* C29: a job the scheduler fires after RemoveWorker has returned nil for the
\* enabled worker does not call the worker's ExecuteTradingCycle.
C29_NoCycleAfterRemove ==
    [][\A j \in Jobs :
         (jobs[j].late /\ jobs[j].pc = "run") => jobs'[j].pc = "run"]_vars

\* C30: isRunning is true iff the cron scheduler has been started and not
\* stopped.
C30_IsRunningIffCronRunning == wm.isRunning <=> wm.cronRunning

\* C26: of two overlapping cycles, one whose reconciliation returned an
\* active position submits no request to the exchange, whatever the other
\* cycle writes to orderPlaced; so two cycles submit only when both had
\* observed no active position.
C26_ActiveCycleNeverPlaces ==
    \A j \in Jobs : jobs[j].active => jobs[j].calls = 0

\* C27: a cycle has at most one placement acknowledged by the exchange: the
\* acknowledged attempt is the cycle's last (the id it returned is what the
\* retry block ends with), whether or not the Order was then recorded, and
\* the exchange holds at most one order more than before the cycle.
C27_OneAcknowledgedPlacement ==
    [][(obs'.op = "cycle" /\ obs'.acks # <<>>)
          => /\ Len(obs'.acks) = 1
             /\ obs'.ret = obs'.acks[1]
             /\ Len(exchOrders') = Len(exchOrders) + 1]_vars

\* the exchange acknowledged the second attempt of a cycle and the Order
\* could not be recorded
C27_Witness ==
    /\ obs.op = "cycle"
    /\ obs.attempts = 2
    /\ Len(obs.acks) = 1
    /\ obs.unrecorded

\* C28: the quantity of the Order a placement recorded equals the quantity
\* of the request it submitted to the exchange.
C28_RecordedQuantityIsSubmitted ==
    (obs.op = "placeLong" /\ obs.created # <<>>)
        => LET row == GetByOrderID(orders, obs.created[1])[1]
               req == obs.calls[Len(obs.calls)]
           IN  row.quantity.num = req.qty * row.quantity.den

====
